---------------------------- MODULE Spec2Model ----------------------------
(***************************************************************************)
(* A model of the 2D collision engine of src/src/utils/physics_engine:     *)
(* the vector kernel, the bodies, the spatial grid and the quadtree, the   *)
(* narrow phase with its continuous variant, the resolver and the engine   *)
(* loop.                                                                   *)
(*                                                                         *)
(* Numbers.  The program computes in floating point.  Here a float is a    *)
(* fixed-point number: the integer n stands for n / SC.  Products and      *)
(* quotients round toward zero (TDiv), a square root rounds down (ISqrt);  *)
(* like the IEEE operations they round symmetrically in the sign.  The     *)
(* continuous detector bisects a time interval twenty times and compares   *)
(* against 1e-6, which needs a finer grid: its section counts time in      *)
(* ticks of dt / 2^21 and lengths in whole units, exactly.                  *)
(*                                                                         *)
(* Identity.  Python bodies are objects; a list holds references.  heap    *)
(* maps an object's id to its fields, and every list of bodies is a        *)
(* sequence of ids, so the same body can be listed twice.                  *)
(***************************************************************************)
EXTENDS Integers, Sequences, FiniteSets, TLC

VARIABLES
    heap,             \* id -> fields of the body object with that id
    bodies,           \* PhysicsEngine.bodies: a sequence of ids
    config,           \* PhysicsEngine.config (EngineConfig)
    collision_pairs,  \* PhysicsEngine.collision_pairs of the last step
    paused,           \* PhysicsEngine.paused
    calls,            \* the callbacks invoked by the last operation, in order
    steps,            \* number of step(dt) calls made so far
    use_spatial_optimization,  \* CollisionDetector.use_spatial_optimization
    spatial_grid,     \* CollisionDetector.spatial_grid: a SpatialGrid, or None
    collisions,       \* the list detect_collisions returned last
    raised,           \* the exception the last operation ended with, or "none"
    checked,          \* the results of the last narrow-phase check of a pair
    op,               \* the last operation performed
    quadtree,         \* a QuadTree: path of child indexes -> node
    return_objects,   \* the list the last QuadTree.retrieve filled
    query,            \* the body the last QuadTree.retrieve was asked about
    ccd,              \* the last call of detect_continuous_collision and its result
    ring_collision    \* what the last Ring.collision_with_circle returned

engineVars == <<heap, bodies, config, collision_pairs, paused, calls, steps>>

detectorVars == <<use_spatial_optimization, spatial_grid, collisions, raised, checked, op>>

toolVars == <<quadtree, return_objects, query, ccd, ring_collision>>

(***************************************************************************)
(* Fixed-point arithmetic                                                  *)
(***************************************************************************)
SC == 10 * 10

Abs(a) == IF a < 0 THEN -a ELSE a

Min(a, b) == IF a <= b THEN a ELSE b

Max(a, b) == IF a >= b THEN a ELSE b

\* Integer quotient rounded toward zero.
TDiv(a, b) ==
    LET q == Abs(a) \div Abs(b)
    IN  IF (a < 0) # (b < 0) THEN -q ELSE q

\* a * b and a / b on fixed-point numbers.
Mul(a, b) == TDiv(a * b, SC)

Quot(a, b) == TDiv(a * SC, b)

RECURSIVE SqrtSearch(_, _, _)
SqrtSearch(n, lo, hi) ==
    IF lo >= hi THEN lo
    ELSE LET mid == (lo + hi + 1) \div 2
         IN  IF mid * mid <= n THEN SqrtSearch(n, mid, hi)
                               ELSE SqrtSearch(n, lo, mid - 1)

\* The largest m with m * m <= n (n < 2^31, so m <= 46340).
ISqrt(n) == SqrtSearch(n, 0, 46340)

(***************************************************************************)
(* Vector2D (core/vector.py)                                               *)
(***************************************************************************)
Vector2D(x, y) == [x |-> x, y |-> y]

ZeroVector == Vector2D(0, 0)

\* A vector given in whole units.
V(x, y) == Vector2D(x * SC, y * SC)

__add__(a, b) == Vector2D(a.x + b.x, a.y + b.y)

__sub__(a, b) == Vector2D(a.x - b.x, a.y - b.y)

__mul__(v, scalar) == Vector2D(Mul(v.x, scalar), Mul(v.y, scalar))

__truediv__(v, scalar) == Vector2D(Quot(v.x, scalar), Quot(v.y, scalar))

__neg__(v) == Vector2D(-v.x, -v.y)

magnitude(v) == ISqrt(v.x * v.x + v.y * v.y)

magnitude_squared(v) == TDiv(v.x * v.x + v.y * v.y, SC)

normalized(v) ==
    LET mag == magnitude(v)
    IN  IF mag = 0 THEN ZeroVector
        ELSE Vector2D(Quot(v.x, mag), Quot(v.y, mag))

dot(a, b) == TDiv(a.x * b.x + a.y * b.y, SC)

distance_to(a, b) ==
    LET dx == a.x - b.x
        dy == a.y - b.y
    IN  ISqrt(dx * dx + dy * dy)

(***************************************************************************)
(* Bodies (physics/body.py)                                                *)
(***************************************************************************)
\* PhysicsBody.__init__: the fields every body has.  A mass of infinity
\* is inf_mass = TRUE (mass is then unused); 1 / inf = 0.
PhysicsBody(kind, position, mass, inf_mass, static) ==
    [kind |-> kind,
     position |-> position,
     velocity |-> ZeroVector,
     acceleration |-> ZeroVector,
     mass |-> mass,
     inf_mass |-> inf_mass,
     inv_mass |-> IF static \/ inf_mass THEN 0 ELSE Quot(SC, mass),
     static |-> static,
     restitution |-> (8 * SC) \div 10,
     friction |-> (3 * SC) \div 10,
     drag_coefficient |-> SC \div 10,
     forces |-> <<>>,
     engine |-> FALSE,
     on_collision |-> FALSE,
     radius |-> 0,
     start |-> ZeroVector,
     end |-> ZeroVector,
     thickness |-> 0,
     inner_radius |-> 0,
     outer_radius |-> 0,
     gap_angle |-> 0,
     gap_start |-> 0,
     rotation |-> 0,
     rotation_speed |-> 0]

Circle(position, radius, mass, static) ==
    [PhysicsBody("Circle", position, mass, FALSE, static) EXCEPT !.radius = radius]

Segment(start, end, thickness, static) ==
    [PhysicsBody("Segment", __truediv__(__add__(start, end), 2 * SC), 0, TRUE, static)
        EXCEPT !.start = start, !.end = end, !.thickness = thickness]

Ring(center, inner_radius, outer_radius, gap_angle, gap_start, static) ==
    [PhysicsBody("Ring", center, 0, TRUE, static)
        EXCEPT !.inner_radius = inner_radius, !.outer_radius = outer_radius,
               !.gap_angle = gap_angle, !.gap_start = gap_start]

\* hasattr(body, 'radius'): only a Circle has a radius.
HasRadius(b) == b.kind = "Circle"

\* v / body.mass
DivByMass(v, b) == IF b.inf_mass THEN ZeroVector ELSE __truediv__(v, b.mass)

(***************************************************************************)
(* PhysicsEngine (core/engine.py)                                          *)
(***************************************************************************)
add_body(id) ==
    /\ bodies' = Append(bodies, id)
    /\ heap' = [heap EXCEPT ![id].engine = TRUE]

\* list.remove(x) removes the first occurrence of x.
RECURSIVE ListRemove(_, _)
ListRemove(s, x) ==
    IF s = <<>> THEN <<>>
    ELSE IF Head(s) = x THEN Tail(s)
    ELSE <<Head(s)>> \o ListRemove(Tail(s), x)

InList(s, x) == \E i \in 1..Len(s) : s[i] = x

remove_body(id) ==
    IF InList(bodies, id)
    THEN /\ bodies' = ListRemove(bodies, id)
         /\ heap' = [heap EXCEPT ![id].engine = FALSE]
    ELSE UNCHANGED <<bodies, heap>>

\* The body of the loop of _apply_forces.
apply_forces_body(h, id, cfg) ==
    LET body == h[id]
        mag == magnitude(body.velocity)
        air_force ==
            __mul__(__mul__(__mul__(normalized(body.velocity),
                                    -magnitude_squared(body.velocity)),
                            SC \div 2),
                    body.drag_coefficient)
        acc0 == cfg.gravity
        acc1 == IF mag > 0 THEN __add__(acc0, DivByMass(air_force, body)) ELSE acc0
        SumForces[i \in 0..Len(body.forces)] ==
            IF i = 0 THEN acc1
            ELSE __add__(SumForces[i - 1], DivByMass(body.forces[i], body))
    IN  IF body.static THEN h
        ELSE [h EXCEPT ![id].acceleration = SumForces[Len(body.forces)],
                       ![id].forces = <<>>]

RECURSIVE _apply_forces(_, _, _, _)
_apply_forces(h, bs, i, cfg) ==
    IF i > Len(bs) THEN h
    ELSE _apply_forces(apply_forces_body(h, bs[i], cfg), bs, i + 1, cfg)

\* _integrate without its test of body.static.
integrate_body_unguarded(h, id, dt, cfg) ==
    LET body == h[id]
    IN  [h EXCEPT ![id].position =
                      __add__(body.position,
                              __add__(__mul__(body.velocity, dt),
                                      __mul__(__mul__(__mul__(body.acceleration, SC \div 2), dt), dt))),
                  ![id].velocity = __add__(body.velocity, __mul__(body.acceleration, dt))]

\* The body of the loop of _integrate.
integrate_body(h, id, dt, cfg) ==
    LET body == h[id]
        pos == __add__(body.position,
                       __add__(__mul__(body.velocity, dt),
                               __mul__(__mul__(__mul__(body.acceleration, SC \div 2), dt), dt)))
        vel1 == __add__(body.velocity, __mul__(body.acceleration, dt))
        vel2 == IF magnitude(vel1) > cfg.max_velocity
                THEN __mul__(normalized(vel1), cfg.max_velocity)
                ELSE vel1
        vel3 == __mul__(vel2, SC - Mul(cfg.friction, dt))
    IN  IF body.static THEN h
        ELSE [h EXCEPT ![id].position = pos, ![id].velocity = vel3]

RECURSIVE _integrate(_, _, _, _, _)
_integrate(h, bs, i, dt, cfg) ==
    IF i > Len(bs) THEN h
    ELSE _integrate(integrate_body(h, bs[i], dt, cfg), bs, i + 1, dt, cfg)

NoCollision == [hit |-> FALSE]

\* PhysicsEngine._check_collision: circle against circle only.
engine_check_collision(body_a, body_b) ==
    IF HasRadius(body_a) /\ HasRadius(body_b)
    THEN LET distance == distance_to(body_a.position, body_b.position)
             normal == normalized(__sub__(body_b.position, body_a.position))
         IN  IF distance < body_a.radius + body_b.radius
             THEN [hit |-> TRUE,
                   normal |-> normal,
                   penetration |-> body_a.radius + body_b.radius - distance,
                   contact_point |-> __add__(body_a.position, __mul__(normal, body_a.radius))]
             ELSE NoCollision
    ELSE NoCollision

\* The pairs (i, j), i < j, of positions of a list of n bodies, in loop order.
RECURSIVE IndexPairs(_, _, _)
IndexPairs(n, i, j) ==
    IF i > n THEN <<>>
    ELSE IF j > n THEN IndexPairs(n, i + 1, i + 2)
    ELSE <<(<<i, j>>)>> \o IndexPairs(n, i, j + 1)

RECURSIVE engine_detect_from(_, _, _)
engine_detect_from(h, bs, prs) ==
    IF prs = <<>> THEN <<>>
    ELSE LET a == bs[Head(prs)[1]]
             b == bs[Head(prs)[2]]
             info == engine_check_collision(h[a], h[b])
             rest == engine_detect_from(h, bs, Tail(prs))
         IN  IF h[a].static /\ h[b].static THEN rest
             ELSE IF info.hit THEN <<[body_a |-> a, body_b |-> b, info |-> info]>> \o rest
             ELSE rest

\* PhysicsEngine._detect_collisions
_detect_collisions(h, bs) == engine_detect_from(h, bs, IndexPairs(Len(bs), 1, 2))

\* The body of the loop of PhysicsEngine._resolve_collisions: the heap and
\* the callback log after one pair.  ncb is len(self.collision_callbacks).
engine_resolve_pair(st, pair, ncb) ==
    LET a == pair.body_a
        b == pair.body_b
        normal == pair.info.normal
        penetration == pair.info.penetration
        correction == __mul__(__mul__(normal, penetration), SC \div 2)
        h1 == IF st.h[a].static THEN st.h
              ELSE [st.h EXCEPT ![a].position = __sub__(@, correction)]
        h2 == IF h1[b].static THEN h1
              ELSE [h1 EXCEPT ![b].position = __add__(@, correction)]
        relative_velocity == __sub__(h2[b].velocity, h2[a].velocity)
        velocity_along_normal == dot(relative_velocity, normal)
        restitution == Min(h2[a].restitution, h2[b].restitution)
        inv_mass_a == IF h2[a].static THEN 0 ELSE Quot(SC, h2[a].mass)
        inv_mass_b == IF h2[b].static THEN 0 ELSE Quot(SC, h2[b].mass)
        impulse_scalar == Quot(Mul(-(SC + restitution), velocity_along_normal),
                               inv_mass_a + inv_mass_b)
        impulse == __mul__(normal, impulse_scalar)
        h3 == IF h2[a].static THEN h2
              ELSE [h2 EXCEPT ![a].velocity = __sub__(@, __mul__(impulse, inv_mass_a))]
        h4 == IF h3[b].static THEN h3
              ELSE [h3 EXCEPT ![b].velocity = __add__(@, __mul__(impulse, inv_mass_b))]
        cbs == [k \in 1..ncb |-> [callback |-> k, first |-> a, second |-> b]]
    IN  IF velocity_along_normal > 0
        THEN [h |-> h2, log |-> st.log]
        ELSE [h |-> h4, log |-> st.log \o cbs]

RECURSIVE _resolve_collisions(_, _, _)
_resolve_collisions(st, prs, ncb) ==
    IF prs = <<>> THEN st
    ELSE _resolve_collisions(engine_resolve_pair(st, Head(prs), ncb), Tail(prs), ncb)

\* PhysicsEngine.step(dt): forces, integration, detection, resolution.  The
\* engine of the model holds no constraints and no update callbacks.
step(dt) ==
    IF paused THEN UNCHANGED <<heap, collision_pairs, calls>>
    ELSE LET h1 == _apply_forces(heap, bodies, 1, config)
             h2 == _integrate(h1, bodies, 1, dt, config)
             prs == _detect_collisions(h2, bodies)
             st == _resolve_collisions([h |-> h2, log |-> <<>>], prs,
                                       config.collision_callbacks)
         IN  /\ heap' = st.h
             /\ collision_pairs' = prs
             /\ calls' = st.log

(***************************************************************************)
(* Shape queries (physics/body.py)                                         *)
(***************************************************************************)
\* A bounding box that leaves out the radius and the thickness.
get_bounding_box_of_axis(b) ==
    IF b.kind = "Circle"
    THEN <<b.position, b.position>>
    ELSE <<Vector2D(Min(b.start.x, b.end.x), Min(b.start.y, b.end.y)),
           Vector2D(Max(b.start.x, b.end.x), Max(b.start.y, b.end.y))>>

\* Circle.get_bounding_box and Segment.get_bounding_box: (min, max).
get_bounding_box(b) ==
    IF b.kind = "Circle"
    THEN <<Vector2D(b.position.x - b.radius, b.position.y - b.radius),
           Vector2D(b.position.x + b.radius, b.position.y + b.radius)>>
    ELSE <<Vector2D(Min(b.start.x, b.end.x) - b.thickness,
                    Min(b.start.y, b.end.y) - b.thickness),
           Vector2D(Max(b.start.x, b.end.x) + b.thickness,
                    Max(b.start.y, b.end.y) + b.thickness)>>

get_direction(seg) == normalized(__sub__(seg.end, seg.start))

get_normal(seg) ==
    LET direction == get_direction(seg)
    IN  Vector2D(-direction.y, direction.x)

closest_point_on_segment(seg, point) ==
    LET line_vec == __sub__(seg.end, seg.start)
        point_vec == __sub__(point, seg.start)
        msq == magnitude_squared(line_vec)
        t == Max(0, Min(SC, Quot(dot(point_vec, line_vec), msq)))
    IN  IF msq = 0 THEN seg.start
        ELSE __add__(seg.start, __mul__(line_vec, t))

(***************************************************************************)
(* CollisionDetector: the narrow phase (collision/detector.py)             *)
(***************************************************************************)
None == [hit |-> FALSE]

CollisionInfo(body_a, body_b, contact_point, normal, penetration, collision_type, metadata) ==
    [hit |-> TRUE, body_a |-> body_a, body_b |-> body_b,
     contact_point |-> contact_point, normal |-> normal,
     penetration |-> penetration, collision_type |-> collision_type,
     metadata |-> metadata]

\* The test of line 166.
CirclesOverlap(distance, radius_sum) == distance < radius_sum /\ distance > 0

_circle_circle_collision(h, a, b) ==
    LET circle_a == h[a]
        circle_b == h[b]
        distance == distance_to(circle_a.position, circle_b.position)
        radius_sum == circle_a.radius + circle_b.radius
        normal == normalized(__sub__(circle_b.position, circle_a.position))
    IN  IF CirclesOverlap(distance, radius_sum)
        THEN CollisionInfo(a, b,
                           __add__(circle_a.position, __mul__(normal, circle_a.radius)),
                           normal, radius_sum - distance, "circle-circle", <<>>)
        ELSE None

\* The normal of lines 191-195.
SegmentContactNormal(circle, segment, closest_point, distance) ==
    IF distance > 0
    THEN normalized(__sub__(circle.position, closest_point))
    ELSE get_normal(segment)

_circle_segment_collision(h, c, s) ==
    LET circle == h[c]
        segment == h[s]
        closest_point == closest_point_on_segment(segment, circle.position)
        distance == distance_to(circle.position, closest_point)
        reach == circle.radius + TDiv(segment.thickness, 2)
    IN  IF distance < reach
        THEN CollisionInfo(c, s, closest_point,
                           SegmentContactNormal(circle, segment, closest_point, distance),
                           reach - distance, "circle-segment", <<>>)
        ELSE None

(***************************************************************************)
(* Ring (physics/body.py)                                                  *)
(***************************************************************************)
FullTurn == 360 * SC

\* math.degrees(math.atan2(y, x)), in (-180, 180].  Exact on the axes and
\* the diagonals; in between, atan is interpolated linearly over an octant.
Atan2Deg(y, x) ==
    LET ax == Abs(x)
        ay == Abs(y)
        a == IF ax = 0 /\ ay = 0 THEN 0
             ELSE IF ay <= ax THEN TDiv(45 * SC * ay, ax)
             ELSE 90 * SC - TDiv(45 * SC * ax, ay)
    IN  IF x >= 0 /\ y >= 0 THEN a
        ELSE IF x < 0 /\ y >= 0 THEN 180 * SC - a
        ELSE IF x < 0 THEN a - 180 * SC
        ELSE -a

\* Ring.update_rotation: the ring after dt.
update_rotation(ring, dt) ==
    [ring EXCEPT !.rotation = (ring.rotation + Mul(ring.rotation_speed, dt)) % FullTurn]

has_gap(ring) == ring.gap_angle > 0

\* The start of the gap, lines 419: offset by the current rotation.
gap_start_unrotated(ring) == ring.gap_start % FullTurn

gap_start_rotated(ring) == (ring.gap_start + ring.rotation) % FullTurn

point_in_gap(ring, point) ==
    LET relative_pos == __sub__(point, ring.position)
        angle == (Atan2Deg(relative_pos.y, relative_pos.x) + FullTurn) % FullTurn
        gap_start == gap_start_rotated(ring)
        gap_end == (gap_start + ring.gap_angle) % FullTurn
    IN  IF ~has_gap(ring) THEN FALSE
        ELSE IF gap_start <= gap_end
        THEN gap_start <= angle /\ angle <= gap_end
        ELSE angle >= gap_start \/ angle <= gap_end

\* Ring.collision_with_circle returns None, a filled dict or an empty dict:
\* result is "None", "contact" or "empty".
collision_with_circle(ring, circle_pos, circle_radius) ==
    LET distance == distance_to(ring.position, circle_pos)
        outward == normalized(__sub__(circle_pos, ring.position))
    IN  IF distance + circle_radius < ring.inner_radius THEN [result |-> "None"]
        ELSE IF distance - circle_radius > ring.outer_radius THEN [result |-> "None"]
        ELSE IF has_gap(ring) /\ point_in_gap(ring, circle_pos) THEN [result |-> "None"]
        ELSE IF distance < ring.inner_radius + circle_radius
        THEN [result |-> "contact", type |-> "inner", normal |-> outward,
              penetration |-> ring.inner_radius + circle_radius - distance,
              contact_point |-> __add__(ring.position, __mul__(outward, ring.inner_radius))]
        ELSE IF distance + circle_radius > ring.outer_radius
        THEN [result |-> "contact", type |-> "outer",
              normal |-> normalized(__sub__(ring.position, circle_pos)),
              penetration |-> circle_radius + distance - ring.outer_radius,
              contact_point |-> __add__(ring.position, __mul__(outward, ring.outer_radius))]
        ELSE [result |-> "empty"]

_circle_ring_collision(h, c, r) ==
    LET collision_data == collision_with_circle(h[r], h[c].position, h[c].radius)
    IN  IF collision_data.result = "contact"
        THEN CollisionInfo(c, r, collision_data.contact_point, collision_data.normal,
                           collision_data.penetration, "circle-ring",
                           [ring_collision_type |-> collision_data.type])
        ELSE None

\* A dispatch that does not put the circle first.
_check_collision_as_given(h, a, b) ==
    LET type_a == h[a].kind
        type_b == h[b].kind
    IN  IF type_a = "Circle" /\ type_b = "Circle"
        THEN _circle_circle_collision(h, a, b)
        ELSE IF type_a = "Circle" /\ type_b = "Segment"
        THEN _circle_segment_collision(h, a, b)
        ELSE IF type_a = "Circle" /\ type_b = "Ring"
        THEN _circle_ring_collision(h, a, b)
        ELSE None

\* CollisionDetector._check_collision: dispatch on the two type names.
_check_collision(h, a, b) ==
    LET type_a == h[a].kind
        type_b == h[b].kind
    IN  IF type_a = "Circle" /\ type_b = "Circle"
        THEN _circle_circle_collision(h, a, b)
        ELSE IF {type_a, type_b} = {"Circle", "Segment"}
        THEN _circle_segment_collision(h, IF type_a = "Circle" THEN a ELSE b,
                                          IF type_a = "Segment" THEN a ELSE b)
        ELSE IF {type_a, type_b} = {"Circle", "Ring"}
        THEN _circle_ring_collision(h, IF type_a = "Circle" THEN a ELSE b,
                                       IF type_a = "Ring" THEN a ELSE b)
        ELSE None

(***************************************************************************)
(* SpatialGrid (collision/detector.py)                                     *)
(***************************************************************************)
\* int(math.ceil(a / b)) for a >= 0, b > 0
CeilDiv(a, b) == (a + b - 1) \div b

\* SpatialGrid.__init__.  grid is the dict of the cells in insertion order:
\* a sequence of [cell, bodies].
SpatialGrid(world_width, world_height, cell_size) ==
    [is_none |-> FALSE, world_width |-> world_width, world_height |-> world_height,
     cell_size |-> cell_size,
     cols |-> CeilDiv(world_width, cell_size),
     rows |-> CeilDiv(world_height, cell_size),
     grid |-> <<>>]

\* The clamp of line 46.
ClampCell(k, n) == Max(0, Min(k, n - 1))

_get_cell_coords(g, x, y) ==
    <<ClampCell(x \div g.cell_size, g.cols), ClampCell(y \div g.cell_size, g.rows)>>

\* The cells (col, row) of range(min_row, max_row + 1) x range(min_col, max_col + 1).
RECURSIVE CellRange(_, _, _, _, _)
CellRange(col, row, min_col, max_col, max_row) ==
    IF row > max_row THEN <<>>
    ELSE IF col > max_col THEN CellRange(min_col, row + 1, min_col, max_col, max_row)
    ELSE <<(<<col, row>>)>> \o CellRange(col + 1, row, min_col, max_col, max_row)

_get_cells_for_body(g, body) ==
    LET box == get_bounding_box(body)
        lo == _get_cell_coords(g, box[1].x, box[1].y)
        hi == _get_cell_coords(g, box[2].x, box[2].y)
    IN  CellRange(lo[1], lo[2], lo[1], hi[1], hi[2])

CellIndex(cells, cell) ==
    IF \E k \in 1..Len(cells) : cells[k].cell = cell
    THEN CHOOSE k \in 1..Len(cells) : cells[k].cell = cell
    ELSE 0

\* One turn of the loop of insert: body id appended to the list of cell.
InsertInCell(cells, cell, id) ==
    LET k == CellIndex(cells, cell)
    IN  IF k = 0 THEN Append(cells, [cell |-> cell, bodies |-> <<id>>])
        ELSE [cells EXCEPT ![k].bodies = Append(@, id)]

RECURSIVE InsertInCells(_, _, _)
InsertInCells(cells, cs, id) ==
    IF cs = <<>> THEN cells
    ELSE InsertInCells(InsertInCell(cells, Head(cs), id), Tail(cs), id)

\* SpatialGrid.insert
insert(g, h, id) ==
    [g EXCEPT !.grid = InsertInCells(g.grid, _get_cells_for_body(g, h[id]), id)]

RECURSIVE InsertAll(_, _, _)
InsertAll(g, h, bs) ==
    IF bs = <<>> THEN g ELSE InsertAll(insert(g, h, Head(bs)), h, Tail(bs))

\* The key of line 80: ids are the objects' identities.
\* A key that keeps the order of the two bodies.
PairKey_ordered(a, b) == <<a, b>>

PairKey(a, b) == <<Min(a, b), Max(a, b)>>

\* The pairs of one cell, in loop order, that are new to seen.
RECURSIVE CellPairs(_, _, _)
CellPairs(cell_bodies, prs, st) ==
    IF prs = <<>> THEN st
    ELSE LET body_a == cell_bodies[Head(prs)[1]]
             body_b == cell_bodies[Head(prs)[2]]
             pair == PairKey(body_a, body_b)
         IN  CellPairs(cell_bodies, Tail(prs),
                       IF pair \in st.pairs THEN st
                       ELSE [pairs |-> st.pairs \cup {pair},
                             out |-> Append(st.out, <<body_a, body_b>>)])

RECURSIVE AllCellPairs(_, _)
AllCellPairs(cells, st) ==
    IF cells = <<>> THEN st
    ELSE AllCellPairs(Tail(cells),
                      CellPairs(Head(cells).bodies,
                                IndexPairs(Len(Head(cells).bodies), 1, 2), st))

\* SpatialGrid.get_potential_collisions: the pairs it yields, in order.
get_potential_collisions(g) == AllCellPairs(g.grid, [pairs |-> {}, out |-> <<>>]).out

(***************************************************************************)
(* CollisionDetector.detect_collisions                                     *)
(***************************************************************************)
RECURSIVE CheckPairs(_, _, _)
CheckPairs(h, prs, skip_static) ==
    IF prs = <<>> THEN <<>>
    ELSE LET a == Head(prs)[1]
             b == Head(prs)[2]
             collision == _check_collision(h, a, b)
             rest == CheckPairs(h, Tail(prs), skip_static)
         IN  IF skip_static /\ h[a].static /\ h[b].static THEN rest
             ELSE IF collision.hit THEN <<collision>> \o rest
             ELSE rest

\* A grid that is filled by the first call and kept by the later ones.
RebuiltGrid_kept(g, h, bs) == IF g.grid = <<>> THEN InsertAll(g, h, bs) ELSE g

\* The rebuilt grid of lines 110-114.
RebuiltGrid(g, h, bs) == InsertAll([g EXCEPT !.grid = <<>>], h, bs)

\* self.spatial_grid = None
NoGrid == [is_none |-> TRUE]

\* The test of line 108.
GridMode(use, g) == use /\ ~g.is_none

\* The list detect_collisions returns.
detect_collisions(h, bs, use, g) ==
    IF GridMode(use, g)
    THEN CheckPairs(h, get_potential_collisions(RebuiltGrid(g, h, bs)), FALSE)
    ELSE CheckPairs(h, [k \in 1..Len(IndexPairs(Len(bs), 1, 2)) |->
                           <<bs[IndexPairs(Len(bs), 1, 2)[k][1]],
                             bs[IndexPairs(Len(bs), 1, 2)[k][2]]>>], TRUE)

(***************************************************************************)
(* CollisionResolver (collision/resolver.py)                               *)
(***************************************************************************)
position_correction == TRUE

position_correction_factor == (8 * SC) \div 10

velocity_threshold == SC \div 100

\* 0 if body.static else body.inv_mass
InvMass(body) == IF body.static THEN 0 ELSE body.inv_mass

\* A correction that gives each body half of 0.8 * penetration.
_resolve_position_equal_split(h, a, b, normal, penetration) ==
    LET correction == __mul__(normal, Mul(penetration, position_correction_factor) \div 2)
        h1 == IF h[a].static THEN h
              ELSE [h EXCEPT ![a].position = __sub__(@, correction)]
        h2 == IF h1[b].static THEN h1
              ELSE [h1 EXCEPT ![b].position = __add__(@, correction)]
    IN  IF InvMass(h[a]) + InvMass(h[b]) <= 0 THEN h ELSE h2

_resolve_position(h, a, b, normal, penetration) ==
    LET inv_mass_a == InvMass(h[a])
        inv_mass_b == InvMass(h[b])
        total_inv_mass == inv_mass_a + inv_mass_b
        correction == __mul__(normal, Quot(Mul(penetration, position_correction_factor),
                                           total_inv_mass))
        h1 == IF h[a].static THEN h
              ELSE [h EXCEPT ![a].position = __sub__(@, __mul__(correction, inv_mass_a))]
        h2 == IF h1[b].static THEN h1
              ELSE [h1 EXCEPT ![b].position = __add__(@, __mul__(correction, inv_mass_b))]
    IN  IF total_inv_mass <= 0 THEN h ELSE h2

\* A friction that always cancels the tangential velocity, however small
\* the normal impulse.
_apply_friction_unclamped(h, a, b, normal, impulse_scalar) ==
    LET relative_velocity == __sub__(h[b].velocity, h[a].velocity)
        tangent0 == __sub__(relative_velocity,
                            __mul__(normal, dot(relative_velocity, normal)))
        tangent == normalized(tangent0)
        friction_impulse == __mul__(tangent, -dot(relative_velocity, tangent))
        h1 == IF h[a].static THEN h
              ELSE [h EXCEPT ![a].velocity = __sub__(@, __mul__(friction_impulse, InvMass(h[a])))]
        h2 == IF h1[b].static THEN h1
              ELSE [h1 EXCEPT ![b].velocity = __add__(@, __mul__(friction_impulse, InvMass(h[b])))]
    IN  IF magnitude(tangent0) < velocity_threshold THEN h ELSE h2

_apply_friction(h, a, b, normal, impulse_scalar) ==
    LET relative_velocity == __sub__(h[b].velocity, h[a].velocity)
        tangent0 == __sub__(relative_velocity,
                            __mul__(normal, dot(relative_velocity, normal)))
        tangent == normalized(tangent0)
        friction_magnitude == -dot(relative_velocity, tangent)
        mu == ISqrt(h[a].friction * h[b].friction)
        friction_impulse ==
            IF Abs(friction_magnitude) < Mul(impulse_scalar, mu)
            THEN __mul__(tangent, friction_magnitude)
            ELSE __mul__(tangent, Mul(-impulse_scalar, mu))
        inv_mass_a == InvMass(h[a])
        inv_mass_b == InvMass(h[b])
        h1 == IF h[a].static THEN h
              ELSE [h EXCEPT ![a].velocity = __sub__(@, __mul__(friction_impulse, inv_mass_a))]
        h2 == IF h1[b].static THEN h1
              ELSE [h1 EXCEPT ![b].velocity = __add__(@, __mul__(friction_impulse, inv_mass_b))]
    IN  IF magnitude(tangent0) < velocity_threshold THEN h ELSE h2

\* An impulse without the 1 of (1 + restitution).
ImpulseNumerator_of_restitution(restitution, velocity_along_normal) ==
    Mul(-restitution, velocity_along_normal)

\* Lines 71-74: the impulse before it is divided by the inverse masses.
ImpulseNumerator(restitution, velocity_along_normal) ==
    Mul(-(SC + restitution), velocity_along_normal)

\* The greater of the two restitutions.
combined_restitution_max(body_a, body_b) == Max(body_a.restitution, body_b.restitution)

\* Line 71: restitution = min(body_a.restitution, body_b.restitution)
combined_restitution(body_a, body_b) == Min(body_a.restitution, body_b.restitution)

\* A test that takes no contact for a separating one.
Separating_never(velocity_along_normal) == FALSE

\* Line 67: the bodies separate already.
Separating(velocity_along_normal) == velocity_along_normal > 0

\* _resolve_velocity: the heap afterwards, and the exception it raised.
_resolve_velocity(h, a, b, normal) ==
    LET relative_velocity == __sub__(h[b].velocity, h[a].velocity)
        velocity_along_normal == dot(relative_velocity, normal)
        restitution == combined_restitution(h[a], h[b])
        inv_mass_a == InvMass(h[a])
        inv_mass_b == InvMass(h[b])
        impulse_scalar == Quot(ImpulseNumerator(restitution, velocity_along_normal),
                               inv_mass_a + inv_mass_b)
        impulse == __mul__(normal, impulse_scalar)
        h1 == IF h[a].static THEN h
              ELSE [h EXCEPT ![a].velocity = __sub__(@, __mul__(impulse, inv_mass_a))]
        h2 == IF h1[b].static THEN h1
              ELSE [h1 EXCEPT ![b].velocity = __add__(@, __mul__(impulse, inv_mass_b))]
    IN  IF Separating(velocity_along_normal) THEN [h |-> h, raised |-> "none"]
        ELSE IF inv_mass_a + inv_mass_b = 0 THEN [h |-> h, raised |-> "ZeroDivisionError"]
        ELSE [h |-> _apply_friction(h2, a, b, normal, impulse_scalar), raised |-> "none"]

\* The calls of lines 37-40.
Callbacks(h, collision) ==
    (IF h[collision.body_a].on_collision
     THEN <<[self |-> collision.body_a, other |-> collision.body_b, collision |-> collision]>>
     ELSE <<>>)
    \o (IF h[collision.body_b].on_collision
        THEN <<[self |-> collision.body_b, other |-> collision.body_a, collision |-> collision]>>
        ELSE <<>>)

\* resolve_collision on the state st = [h, log, raised].
resolve_collision(st, collision) ==
    LET a == collision.body_a
        b == collision.body_b
        h1 == IF position_correction /\ collision.penetration > 0
              THEN _resolve_position(st.h, a, b, collision.normal, collision.penetration)
              ELSE st.h
        v == _resolve_velocity(h1, a, b, collision.normal)
    IN  IF v.raised # "none"
        THEN [h |-> v.h, log |-> st.log, raised |-> v.raised]
        ELSE [h |-> v.h, log |-> st.log \o Callbacks(v.h, collision), raised |-> "none"]

\* A loop over the contacts from the last to the first.
RECURSIVE resolve_collisions_reversed(_, _)
resolve_collisions_reversed(st, cs) ==
    IF cs = <<>> \/ st.raised # "none" THEN st
    ELSE resolve_collisions_reversed(resolve_collision(st, cs[Len(cs)]),
                                     SubSeq(cs, 1, Len(cs) - 1))

\* resolve_collisions: an exception ends the loop.
RECURSIVE resolve_collisions(_, _)
resolve_collisions(st, cs) ==
    IF cs = <<>> \/ st.raised # "none" THEN st
    ELSE resolve_collisions(resolve_collision(st, Head(cs)), Tail(cs))

(***************************************************************************)
(* QuadTree (collision/detector.py)                                        *)
(***************************************************************************)
\* QuadTree.__init__: one node.  bounds is (x, y, width, height); nodes
\* says whether the node has its four children.  A tree is a function from
\* paths to nodes: the root is at <<>>, child i of the node at p at p \o <<i>>.
QuadTree(bounds, max_objects, max_levels, level) ==
    [bounds |-> bounds, max_objects |-> max_objects, max_levels |-> max_levels,
     level |-> level, objects |-> <<>>, nodes |-> FALSE]

\* QuadTree.split on the node at path
split(t, path) ==
    LET node == t[path]
        x == node.bounds[1]
        y == node.bounds[2]
        sub_width == TDiv(node.bounds[3], 2)
        sub_height == TDiv(node.bounds[4], 2)
        corner == <<(<<x + sub_width, y>>), (<<x, y>>), (<<x, y + sub_height>>),
                    (<<x + sub_width, y + sub_height>>)>>
        child(i) == QuadTree(<<corner[i + 1][1], corner[i + 1][2], sub_width, sub_height>>,
                             node.max_objects, node.max_levels, node.level + 1)
    IN  [p \in DOMAIN t \cup { Append(path, i) : i \in 0..3 } |->
            IF p = path THEN [node EXCEPT !.nodes = TRUE]
            ELSE IF p \in DOMAIN t THEN t[p]
            ELSE child(p[Len(p)])]

\* A quadrant chosen by the least corner of the bounding box alone.
get_index_by_min_corner(node, body) ==
    LET vertical_midpoint == node.bounds[1] + TDiv(node.bounds[3], 2)
        horizontal_midpoint == node.bounds[2] + TDiv(node.bounds[4], 2)
        min_pos == get_bounding_box(body)[1]
        top_quadrant == min_pos.y < horizontal_midpoint
        bottom_quadrant == min_pos.y > horizontal_midpoint
    IN  IF min_pos.x < vertical_midpoint
        THEN (IF top_quadrant THEN 1 ELSE IF bottom_quadrant THEN 2 ELSE -1)
        ELSE IF min_pos.x > vertical_midpoint
        THEN (IF top_quadrant THEN 0 ELSE IF bottom_quadrant THEN 3 ELSE -1)
        ELSE -1

\* QuadTree.get_index
get_index(node, body) ==
    LET vertical_midpoint == node.bounds[1] + TDiv(node.bounds[3], 2)
        horizontal_midpoint == node.bounds[2] + TDiv(node.bounds[4], 2)
        min_pos == get_bounding_box(body)[1]
        max_pos == get_bounding_box(body)[2]
        top_quadrant == min_pos.y < horizontal_midpoint /\ max_pos.y < horizontal_midpoint
        bottom_quadrant == min_pos.y > horizontal_midpoint
    IN  IF min_pos.x < vertical_midpoint /\ max_pos.x < vertical_midpoint
        THEN (IF top_quadrant THEN 1 ELSE IF bottom_quadrant THEN 2 ELSE -1)
        ELSE IF min_pos.x > vertical_midpoint
        THEN (IF top_quadrant THEN 0 ELSE IF bottom_quadrant THEN 3 ELSE -1)
        ELSE -1

\* self.objects.pop(i)
PopObject(t, path, i) ==
    [t EXCEPT ![path].objects = SubSeq(@, 1, i - 1) \o SubSeq(@, i + 1, Len(@))]

\* QuadTree.insert on the node at path, and the loop that moves the objects
\* of a node into its children, from index i on.
RECURSIVE quadtree_insert(_, _, _, _), Redistribute(_, _, _, _)
quadtree_insert(t, path, h, id) ==
    LET node == t[path]
        index == get_index(node, h[id])
        t1 == [t EXCEPT ![path].objects = Append(@, id)]
    IN  IF node.nodes /\ index # -1
        THEN quadtree_insert(t, Append(path, index), h, id)
        ELSE IF Len(t1[path].objects) > node.max_objects /\ node.level < node.max_levels
        THEN Redistribute(IF node.nodes THEN t1 ELSE split(t1, path), path, h, 1)
        ELSE t1

Redistribute(t, path, h, i) ==
    IF i > Len(t[path].objects) THEN t
    ELSE LET obj == t[path].objects[i]
             index == get_index(t[path], h[obj])
         IN  IF index # -1
             THEN Redistribute(quadtree_insert(PopObject(t, path, i), Append(path, index), h, obj),
                               path, h, i)
             ELSE Redistribute(t, path, h, i + 1)

\* QuadTree.retrieve on the node at path: return_objects afterwards.
RECURSIVE retrieve(_, _, _, _, _)
retrieve(t, path, h, objects, id) ==
    LET index == get_index(t[path], h[id])
    IN  (IF index # -1 /\ t[path].nodes
         THEN retrieve(t, Append(path, index), h, objects, id)
         ELSE objects) \o t[path].objects

(***************************************************************************)
(* ContinuousCollisionDetector (collision/detector.py)                     *)
(*                                                                         *)
(* The bisection halves [0, dt] at most max_iterations times, so every     *)
(* time it computes is a whole number of ticks of dt / Ticks.  dt is the   *)
(* fraction dt.num / dt.den.  The bodies of a call have whole coordinates  *)
(* and move along one axis, so that a distance times Ticks is a whole      *)
(* number too and nothing is rounded.                                      *)
(***************************************************************************)
max_iterations == 20

Ticks == 2 ^ (max_iterations + 1)

\* 1 / tolerance
InvTolerance == 10 ^ 6

\* n / den < tolerance, for n >= 0 and den > 0
BelowTolerance(n, den) == n <= (den - 1) \div InvTolerance

Whole(x) == x \div SC

\* The magnitude of a vector that lies on an axis.
AxisLength(v) == Abs(v.x) + Abs(v.y)

\* Ticks * (pos_b - pos_a) after t ticks, in whole units.
RelativeAt(h, a, b, dt, t) ==
    LET travel(v) == (Whole(v) * dt.num) \div dt.den
    IN  Vector2D(Whole(h[b].position.x - h[a].position.x) * Ticks
                     + travel(h[b].velocity.x - h[a].velocity.x) * t,
                 Whole(h[b].position.y - h[a].position.y) * Ticks
                     + travel(h[b].velocity.y - h[a].velocity.y) * t)

\* body.position + body.velocity * t after t ticks, as a fixed-point vector.
PositionAt(body, dt, t) ==
    LET along(x, v) ==
            LET n == ((Whole(v) * dt.num) \div dt.den) * t
            IN  x + TDiv(n, Ticks) * SC + TDiv((n - TDiv(n, Ticks) * Ticks) * SC, Ticks)
    IN  Vector2D(along(body.position.x, body.velocity.x),
                 along(body.position.y, body.velocity.y))

\* A bracket that keeps the half in which the circles are closer.
Bracket_closer_half(distance, radius_sum, t_min, t_mid, t_max) ==
    IF distance > radius_sum THEN <<t_min, t_mid>> ELSE <<t_mid, t_max>>

\* Lines 303-306: t_min and t_max after an iteration that does not return.
Bracket(distance, radius_sum, t_min, t_mid, t_max) ==
    IF distance > radius_sum THEN <<t_mid, t_max>> ELSE <<t_min, t_mid>>

\* The loop of _binary_search_collision_time from iteration i on; radius_sum
\* in whole units; the result in ticks.
RECURSIVE BisectFrom(_, _, _, _, _, _, _, _)
BisectFrom(h, a, b, dt, radius_sum, i, t_min, t_max) ==
    LET t_mid == (t_min + t_max) \div 2
        distance == AxisLength(RelativeAt(h, a, b, dt, t_mid))
        lo == Bracket(distance, radius_sum * Ticks, t_min, t_mid, t_max)[1]
        hi == Bracket(distance, radius_sum * Ticks, t_min, t_mid, t_max)[2]
    IN  IF i = max_iterations THEN t_mid
        ELSE IF BelowTolerance(Abs(distance - radius_sum * Ticks), Ticks) THEN t_mid
        ELSE IF BelowTolerance((hi - lo) * dt.num, Ticks * dt.den) THEN (lo + hi) \div 2
        ELSE BisectFrom(h, a, b, dt, radius_sum, i + 1, lo, hi)

_binary_search_collision_time(h, a, b, dt, radius_sum) ==
    BisectFrom(h, a, b, dt, radius_sum, 0, 0, Ticks)

\* A test that never finds the circles in contact at t = 0.
AlreadyColliding_never(initial_distance, radius_sum) == FALSE

\* The test of line 251.
AlreadyColliding(initial_distance, radius_sum) == initial_distance < radius_sum

\* v.normalized for a vector on an axis
AxisUnit(v) ==
    Vector2D(IF v.x > 0 THEN SC ELSE IF v.x < 0 THEN -SC ELSE 0,
             IF v.y > 0 THEN SC ELSE IF v.y < 0 THEN -SC ELSE 0)

_circle_circle_ccd(h, a, b, dt) ==
    LET circle_a == h[a]
        circle_b == h[b]
        initial_distance == AxisLength(RelativeAt(h, a, b, dt, 0))
        radius_sum == Whole(circle_a.radius + circle_b.radius)
        final_distance == AxisLength(RelativeAt(h, a, b, dt, Ticks))
        t_collision == _binary_search_collision_time(h, a, b, dt, radius_sum)
        pos_a_collision == PositionAt(circle_a, dt, t_collision)
        normal == AxisUnit(RelativeAt(h, a, b, dt, t_collision))
    IN  IF AlreadyColliding(initial_distance, radius_sum * Ticks) THEN None
        ELSE IF final_distance >= radius_sum * Ticks THEN None
        ELSE CollisionInfo(a, b,
                           __add__(pos_a_collision, __mul__(normal, circle_a.radius)),
                           normal, 0, "circle-circle-ccd",
                           [collision_time |-> t_collision])

detect_continuous_collision(h, a, b, dt) ==
    IF h[a].kind = "Circle" /\ h[b].kind = "Circle"
    THEN _circle_circle_ccd(h, a, b, dt)
    ELSE None

(***************************************************************************)
(* The engine and its driver                                               *)
(***************************************************************************)
NoCheck == [a |-> 0, b |-> 0, ab |-> None, ba |-> None]

\* The detector and the resolver are not in use.
DetectorIdle ==
    /\ use_spatial_optimization = FALSE
    /\ spatial_grid = NoGrid
    /\ collisions = <<>>
    /\ raised = "none"
    /\ checked = NoCheck
    /\ op = "init"

NoCall == [a |-> 0, b |-> 0, dt |-> [num |-> 0, den |-> 1], result |-> None]

\* No quadtree, continuous detector or ring is in use.
ToolsIdle ==
    /\ quadtree = (<<>> :> QuadTree(<<0, 0, 0, 0>>, 0, 0, 0))
    /\ return_objects = <<>>
    /\ query = 0
    /\ ccd = NoCall
    /\ ring_collision = [result |-> "None"]

MaxSteps == 2

MaxList == 2

DynCircle(pos, vel, mass) ==
    [Circle(pos, 10 * SC, mass, FALSE) EXCEPT !.velocity = vel]

StaticCircle(pos, vel) ==
    [Circle(pos, 10 * SC, SC, TRUE) EXCEPT !.velocity = vel]

\* body.on_collision = a callback
OnCollision(body) == [body EXCEPT !.on_collision = TRUE]

EngineConfig(gravity) ==
    [gravity |-> gravity, friction |-> SC \div 10, max_velocity |-> 20 * SC,
     collision_callbacks |-> 1]

\* The scenes the driver builds: a moving circle next to a static one, and
\* either a static segment or a second moving circle; a circle falling
\* under gravity, or one sliding without gravity, slowly or without drag
\* above the maximal speed.  The first circle has an on_collision callback.
EngineScenes ==
    { [heap |-> <<OnCollision([DynCircle(p[1], p[2], p[3]) EXCEPT !.drag_coefficient = p[5]]),
                  StaticCircle(V(50, 50), sv), third>>,
       config |-> EngineConfig(p[4])] :
        p \in { <<V(50, 32), V(0, 4), SC, V(0, 10), SC \div 10>>,
                <<V(34, 50), V(4, 0), 2 * SC, V(0, 0), SC \div 10>>,
                <<V(34, 50), V(22, 0), 2 * SC, V(0, 0), 0>> },
        sv \in { ZeroVector, V(3, 0) },
        third \in { Segment(V(0, 64), V(100, 64), 4 * SC, TRUE),
                    DynCircle(V(66, 50), V(-4, 0), SC) } }

DtChoices == { SC \div 2, SC }

InitEngine ==
    /\ \E scene \in EngineScenes :
          /\ heap = scene.heap
          /\ config = scene.config
    /\ bodies = <<>>
    /\ collision_pairs = <<>>
    /\ paused = FALSE
    /\ calls = <<>>
    /\ steps = 0
    /\ DetectorIdle
    /\ ToolsIdle

AddBody ==
    \E id \in DOMAIN heap :
        /\ Len(bodies) < MaxList
        /\ steps = 0
        /\ add_body(id)
        /\ UNCHANGED <<config, collision_pairs, paused, calls, steps, detectorVars, toolVars>>

RemoveBody ==
    \E id \in DOMAIN heap :
        /\ remove_body(id)
        /\ UNCHANGED <<config, collision_pairs, paused, calls, steps, detectorVars, toolVars>>

Step ==
    \E dt \in DtChoices :
        /\ steps < MaxSteps
        /\ step(dt)
        /\ steps' = steps + 1
        /\ UNCHANGED <<bodies, config, paused, detectorVars, toolVars>>

\* run(): the space key toggles paused.
TogglePause ==
    /\ steps < MaxSteps
    /\ paused' = ~paused
    /\ UNCHANGED <<heap, bodies, config, collision_pairs, calls, steps, detectorVars, toolVars>>

NextEngine == AddBody \/ RemoveBody \/ Step \/ TogglePause

vars == <<engineVars, detectorVars, toolVars>>

SpecEngine == InitEngine /\ [][NextEngine]_vars

\* C1: a static body's position and velocity are the same after every
\* operation of the engine, step(dt) included, whatever overlaps it.
C1_StaticBodyUnchanged ==
    [][\A id \in DOMAIN heap :
          heap[id].static =>
              /\ heap'[id].position = heap[id].position
              /\ heap'[id].velocity = heap[id].velocity]_vars

\* A step has resolved a contact between a static body and a moving one.
C1_Witness ==
    /\ steps > 0
    /\ \E k \in 1..Len(collision_pairs) :
          LET pr == collision_pairs[k]
          IN  /\ heap[pr.body_a].static # heap[pr.body_b].static
              /\ pr.info.penetration > 0

\* Body self has been called back about a contact with body other.
CalledBack(self, other) ==
    \E c \in 1..Len(calls) :
        /\ "self" \in DOMAIN calls[c]
        /\ calls[c].self = self
        /\ calls[c].other = other

\* C11: for every contact detected in a step, the on_collision callback of
\* each of its two bodies that has one has been invoked, with the body and
\* the other body, when step returns.
C11_BodyCallbacksInStep ==
    \A k \in 1..Len(collision_pairs) :
        LET pr == collision_pairs[k]
        IN  /\ heap[pr.body_a].on_collision => CalledBack(pr.body_a, pr.body_b)
            /\ heap[pr.body_b].on_collision => CalledBack(pr.body_b, pr.body_a)

\* The heap after the forces and the integration of step(dt).
Integrated(dt) ==
    _integrate(_apply_forces(heap, bodies, 1, config), bodies, 1, dt, config)

\* The pairs of different listed bodies, not both static, for which
\* CollisionDetector._check_collision reports a contact on the heap h.
DetectorPairs(h) ==
    { {bodies[q[1]], bodies[q[2]]} :
        q \in { q \in (1..Len(bodies)) \X (1..Len(bodies)) :
                   /\ bodies[q[1]] # bodies[q[2]]
                   /\ ~(h[bodies[q[1]]].static /\ h[bodies[q[2]]].static)
                   /\ _check_collision(h, bodies[q[1]], bodies[q[2]]).hit } }

\* The pairs of different bodies a list of engine contacts is about.
StepPairs(prs) ==
    { {prs[k].body_a, prs[k].body_b} :
        k \in { k \in 1..Len(prs) : prs[k].body_a # prs[k].body_b } }

\* C12: the pairs a step(dt) detects and resolves are the pairs, not both
\* static, for which CollisionDetector._check_collision reports a contact on
\* the positions after the integration.
C12_StepRunsNarrowPhase ==
    [][\A dt \in DtChoices :
          (/\ ~paused
           /\ steps' = steps + 1
           /\ step(dt))
          => StepPairs(collision_pairs') = DetectorPairs(Integrated(dt))]_vars

\* C15: after a step the speed of every listed body that is not static is
\* at most config.max_velocity.
C15_SpeedClamped ==
    steps > 0 =>
        \A i \in 1..Len(bodies) :
            LET body == heap[bodies[i]]
            IN  ~body.static =>
                    body.velocity.x * body.velocity.x + body.velocity.y * body.velocity.y
                        <= config.max_velocity * config.max_velocity

\* C27: after every add_body and remove_body, a body's engine is this
\* engine exactly when the body is in the list of bodies, and the body a
\* remove_body call took out of the list is no longer in it.
C27_BackReferenceIffListed ==
    [][/\ \A id \in DOMAIN heap : heap'[id].engine <=> InList(bodies', id)
       /\ \A id \in DOMAIN heap :
             (InList(bodies, id) /\ bodies' = ListRemove(bodies, id))
             => ~InList(bodies', id)]_vars

(***************************************************************************)
(* The narrow phase on a pair of bodies                                    *)
(***************************************************************************)
EngineIdle ==
    /\ config = EngineConfig(ZeroVector)
    /\ collision_pairs = <<>>
    /\ paused = FALSE

MovingCircle(pos, radius, vel) ==
    [Circle(pos, radius, SC, FALSE) EXCEPT !.velocity = vel]

\* The second body of a pair: a circle, a segment (one of zero length), a
\* ring with a gap and one without.
NarrowPartners ==
    { Circle(V(50, 50), 10 * SC, SC, FALSE),
      Circle(V(50, 50), 4 * SC, SC, TRUE),
      Segment(V(0, 50), V(100, 50), 4 * SC, TRUE),
      Segment(V(50, 0), V(50, 100), 4 * SC, TRUE),
      Segment(V(50, 50), V(50, 50), 4 * SC, TRUE),
      Ring(V(50, 50), 12 * SC, 16 * SC, 0, 0, TRUE),
      Ring(V(50, 50), 12 * SC, 16 * SC, 90 * SC, 315 * SC, TRUE) }

NarrowCentres == { V(x, y) : x \in {38, 50, 56, 70}, y \in {42, 50, 58} }

NarrowScenes ==
    { <<MovingCircle(c, r, ZeroVector), partner>> :
        c \in NarrowCentres, r \in {5 * SC, 8 * SC}, partner \in NarrowPartners }

InitNarrow ==
    /\ heap \in NarrowScenes
    /\ bodies = <<1, 2>>
    /\ calls = <<>>
    /\ steps = 0
    /\ EngineIdle
    /\ DetectorIdle
    /\ ToolsIdle

\* _check_collision(A, B) and _check_collision(B, A)
CheckPair ==
    \E a \in DOMAIN heap, b \in DOMAIN heap :
        /\ a < b
        /\ checked' = [a |-> a, b |-> b,
                       ab |-> _check_collision(heap, a, b),
                       ba |-> _check_collision(heap, b, a)]
        /\ op' = "check"
        /\ UNCHANGED <<engineVars, use_spatial_optimization, spatial_grid,
                       collisions, raised, toolVars>>

\* The driver puts the first body somewhere else.
PlaceBody ==
    \E c \in NarrowCentres :
        /\ op \in {"check", "engine"}
        /\ c # heap[1].position
        /\ c.x = heap[1].position.x \/ c.y = heap[1].position.y
        /\ heap' = [heap EXCEPT ![1].position = c]
        /\ op' = "place"
        /\ UNCHANGED <<bodies, config, collision_pairs, paused, calls, steps,
                       use_spatial_optimization, spatial_grid, collisions, raised, checked, toolVars>>

\* engine._detect_collisions() on the two bodies
EngineDetect ==
    /\ op # "engine"
    /\ collision_pairs' = _detect_collisions(heap, bodies)
    /\ op' = "engine"
    /\ UNCHANGED <<heap, bodies, config, paused, calls, steps,
                   use_spatial_optimization, spatial_grid, collisions, raised, checked,
                   toolVars>>

NextNarrow == CheckPair \/ PlaceBody \/ EngineDetect

SpecNarrow == InitNarrow /\ [][NextNarrow]_vars

\* The pair of the last CheckPair is one of the supported shape pairs.
SupportedPair ==
    /\ op = "check"
    /\ \/ heap[checked.a].kind = "Circle" /\ heap[checked.b].kind = "Circle"
       \/ {heap[checked.a].kind, heap[checked.b].kind} = {"Circle", "Segment"}
       \/ {heap[checked.a].kind, heap[checked.b].kind} = {"Circle", "Ring"}

\* C4, as the code has it: _check_collision(A, B) reports a contact iff
\* _check_collision(B, A) does; for two circles the penetrations are equal,
\* the bodies are exchanged and the normal of one is the negation of the
\* normal of the other; for a circle with a segment or a ring both orders
\* return the same contact, body_a the circle, with the same normal.
C4_SymmetryAsImplemented ==
    SupportedPair =>
        /\ checked.ab.hit = checked.ba.hit
        /\ checked.ab.hit =>
              IF heap[checked.a].kind = "Circle" /\ heap[checked.b].kind = "Circle"
              THEN /\ checked.ab.penetration = checked.ba.penetration
                   /\ checked.ba.normal = __neg__(checked.ab.normal)
                   /\ checked.ab.body_a = checked.a /\ checked.ab.body_b = checked.b
                   /\ checked.ba.body_a = checked.b /\ checked.ba.body_b = checked.a
              ELSE /\ checked.ab = checked.ba
                   /\ heap[checked.ab.body_a].kind = "Circle"

\* A circle and a segment in contact, checked in both orders.
C4_Witness ==
    /\ SupportedPair
    /\ heap[checked.b].kind = "Segment"
    /\ checked.ab.hit /\ checked.ba.hit
    /\ checked.ab.normal # ZeroVector

\* C4 as stated: a contact in one order iff in the other, equal penetrations,
\* and the normal of one the exact negation of the normal of the other.
C4_NormalNegated ==
    SupportedPair =>
        /\ checked.ab.hit = checked.ba.hit
        /\ checked.ab.hit =>
              /\ checked.ab.penetration = checked.ba.penetration
              /\ checked.ba.normal = __neg__(checked.ab.normal)

\* The point of body_b the normal of a contact has to point to.
ContactTarget(collision) ==
    IF heap[collision.body_b].kind = "Segment"
    THEN closest_point_on_segment(heap[collision.body_b], heap[collision.body_a].position)
    ELSE heap[collision.body_b].position

\* C5: in a circle-circle or circle-segment contact the normal points from
\* body_a toward body_b: it makes no obtuse angle with the vector from A's
\* centre to B's centre, or to the closest point of the segment.
C5_NormalFromAToB ==
    \A collision \in {checked.ab, checked.ba} :
        (/\ op = "check"
         /\ collision.hit
         /\ collision.collision_type \in {"circle-circle", "circle-segment"})
        => dot(collision.normal,
               __sub__(ContactTarget(collision), heap[collision.body_a].position)) >= 0

\* C29: the normal of every contact CollisionDetector._check_collision
\* returns has length 1, up to the two digits of a normalized vector.
C29_UnitNormal ==
    \A collision \in {checked.ab, checked.ba} :
        (op = "check" /\ collision.hit)
        => /\ collision.normal # ZeroVector
           /\ Abs(magnitude(collision.normal) - SC) <= 2

\* The bodies 1 and 2 are circles whose centres are distance apart, with
\* 0 < distance < sum of the radii.
CirclesInReach ==
    LET distance == distance_to(heap[1].position, heap[2].position)
    IN  distance > 0 /\ distance < heap[1].radius + heap[2].radius

\* C22: for two circles, CollisionDetector._check_collision and the
\* engine's _detect_collisions report a contact exactly when the distance d
\* of the centres is above 0 and below the sum of the radii, and the contact
\* has that sum less d for its penetration.
C22_CircleContactIffInReach ==
    (heap[1].kind = "Circle" /\ heap[2].kind = "Circle") =>
        /\ (op = "check" /\ checked.a = 1) =>
              /\ checked.ab.hit <=> CirclesInReach
              /\ checked.ab.hit =>
                    checked.ab.penetration =
                        heap[1].radius + heap[2].radius
                            - distance_to(heap[1].position, heap[2].position)
        /\ op = "engine" =>
              /\ collision_pairs # <<>> <=> CirclesInReach
              /\ collision_pairs # <<>> =>
                    collision_pairs[1].info.penetration =
                        heap[1].radius + heap[2].radius
                            - distance_to(heap[1].position, heap[2].position)

(***************************************************************************)
(* Detection and resolution on a pair of bodies                            *)
(***************************************************************************)
MaxRounds == 2

WorldSize == 200 * SC

CellSize == 100 * SC

Material(body, vel, restitution, friction) ==
    [body EXCEPT !.velocity = vel, !.restitution = restitution, !.friction = friction]

\* Two overlapping circles of radius 10: the centres, and the unit vector
\* from the first to the second.
CircleGeometries ==
    { [a |-> V(40, 50), b |-> V(55, 50), n |-> Vector2D(SC, 0)],
      [a |-> V(50, 40), b |-> V(50, 55), n |-> Vector2D(0, SC)],
      [a |-> V(44, 42), b |-> V(53, 54), n |-> Vector2D((6 * SC) \div 10, (8 * SC) \div 10)] }

\* The velocities of the two circles along n (k_a, k_b) and across it (t_a).
Motions ==
    { <<5, -5, 0>>, <<5, 0, 0>>, <<-5, 5, 5>>, <<5, -5, 5>>, <<5, -5, 1>>, <<0, 0, 0>> }

CircleScenes ==
    { <<Material(Circle(g.a, 10 * SC, m[1], FALSE),
                 Vector2D(mo[1] * g.n.x - mo[3] * g.n.y, mo[1] * g.n.y + mo[3] * g.n.x),
                 e[1], f[1]),
        Material(Circle(g.b, 10 * SC, m[2], FALSE),
                 Vector2D(mo[2] * g.n.x, mo[2] * g.n.y), e[2], f[2])>> :
        g \in CircleGeometries, mo \in Motions,
        m \in { <<SC, SC>>, <<2 * SC, 2 * SC>>, <<SC \div 4, SC>> },
        e \in { <<SC, SC>>, <<(8 * SC) \div 10, (8 * SC) \div 10>>, <<SC, SC \div 2>> },
        f \in { <<0, 0>>, <<(2 * SC) \div 10, (8 * SC) \div 10>> } }

\* Pairs with a static body or one of infinite mass.
StaticScenes ==
    { <<Circle(V(50, 50), 10 * SC, SC, TRUE), Circle(V(55, 50), 10 * SC, SC, TRUE)>>,
      <<Circle(V(50, 50), 10 * SC, SC, TRUE), MovingCircle(V(62, 50), 10 * SC, V(-3, 0))>>,
      <<Circle(V(50, 50), 10 * SC, SC, TRUE), Segment(V(0, 55), V(100, 55), 4 * SC, TRUE)>>,
      <<Circle(V(50, 50), 10 * SC, SC, TRUE), Segment(V(0, 55), V(100, 55), 4 * SC, FALSE)>>,
      <<MovingCircle(V(50, 47), 5 * SC, V(0, 1)), Segment(V(0, 50), V(100, 50), 2 * SC, TRUE)>>,
      <<MovingCircle(V(50, 47), 5 * SC, V(0, 1)), Segment(V(0, 50), V(100, 50), 2 * SC, FALSE)>>,
      <<Circle(V(50, 40), 6 * SC, SC, TRUE), Ring(V(50, 50), 12 * SC, 16 * SC, 0, 0, TRUE)>>,
      <<MovingCircle(V(50, 42), 6 * SC, V(0, -2)), Ring(V(50, 50), 12 * SC, 16 * SC, 0, 0, TRUE)>> }

\* Two circles of radius 10 on the same centre.
CoincidentScenes ==
    { <<MovingCircle(V(50, 50), 10 * SC, ZeroVector),
        MovingCircle(V(50, 50), 10 * SC, ZeroVector)>> }

\* Both bodies of a scene have an on_collision callback, or only the second.
InitResolve ==
    /\ \E scene \in CircleScenes \cup StaticScenes \cup CoincidentScenes :
          \E first \in BOOLEAN :
              heap = <<[scene[1] EXCEPT !.on_collision = first], OnCollision(scene[2])>>
    /\ bodies = <<1, 2>>
    /\ use_spatial_optimization \in BOOLEAN
    /\ spatial_grid = NoGrid
    /\ collisions = <<>>
    /\ raised = "none"
    /\ checked = NoCheck
    /\ op = "init"
    /\ calls = <<>>
    /\ steps = 0
    /\ EngineIdle
    /\ ToolsIdle

\* CollisionDetector.setup_spatial_grid
setup_spatial_grid(world_width, world_height) ==
    spatial_grid' = IF use_spatial_optimization
                    THEN SpatialGrid(world_width, world_height, CellSize)
                    ELSE spatial_grid

SetupSpatialGrid ==
    /\ op = "init"
    /\ setup_spatial_grid(WorldSize, WorldSize)
    /\ op' = "setup"
    /\ UNCHANGED <<engineVars, use_spatial_optimization, collisions, raised, checked, toolVars>>

\* collisions = detector.detect_collisions(bodies)
DetectCollisions ==
    /\ steps < MaxRounds
    /\ raised = "none"
    /\ op \notin {"detect", "given"}
    /\ collisions' = detect_collisions(heap, bodies, use_spatial_optimization, spatial_grid)
    /\ spatial_grid' = IF GridMode(use_spatial_optimization, spatial_grid)
                       THEN RebuiltGrid(spatial_grid, heap, bodies)
                       ELSE spatial_grid
    /\ op' = "detect"
    /\ UNCHANGED <<engineVars, use_spatial_optimization, raised, checked, toolVars>>

\* collisions = [CollisionInfo(a, b, a.position, Vector2D(1, 0), p)]: a
\* contact the caller builds, with a penetration that is not positive.
GivenCollisions ==
    \E penetration \in { -3 * SC, 0 } :
        /\ op \in {"init", "setup"}
        /\ steps < MaxRounds
        /\ collisions' = <<CollisionInfo(bodies[1], bodies[2], heap[bodies[1]].position,
                                         Vector2D(SC, 0), penetration, "given", <<>>)>>
        /\ op' = "given"
        /\ UNCHANGED <<engineVars, use_spatial_optimization, spatial_grid, raised,
                       checked, toolVars>>

\* resolver.resolve_collisions(collisions, dt)
ResolveCollisions ==
    /\ op \in {"detect", "given"}
    /\ LET st == resolve_collisions([h |-> heap, log |-> <<>>, raised |-> "none"], collisions)
       IN  /\ heap' = st.h
           /\ calls' = st.log
           /\ raised' = st.raised
    /\ op' = "resolve"
    /\ steps' = steps + 1
    /\ UNCHANGED <<bodies, config, collision_pairs, paused,
                   use_spatial_optimization, spatial_grid, collisions, checked, toolVars>>

NextResolve == SetupSpatialGrid \/ DetectCollisions \/ GivenCollisions \/ ResolveCollisions

SpecResolve == InitResolve /\ [][NextResolve]_vars

\* The pairs of bodies of a list of contacts.
ContactPairs(cs) == { {cs[k].body_a, cs[k].body_b} : k \in 1..Len(cs) }

\* What detect_collisions returns on the same bodies in the other mode:
\* without a grid if the detector has one, with a grid if it has none.
OtherPath(h, bs) ==
    IF GridMode(use_spatial_optimization, spatial_grid)
    THEN detect_collisions(h, bs, FALSE, NoGrid)
    ELSE detect_collisions(h, bs, TRUE, SpatialGrid(WorldSize, WorldSize, CellSize))

\* C26: detect_collisions with the grid and without it return contacts of
\* the same pairs of bodies, and no contact between two static bodies.
C26_PathsAgree ==
    [][(op # "detect" /\ op' = "detect")
       => /\ ContactPairs(collisions') = ContactPairs(OtherPath(heap, bodies))
          /\ \A k \in 1..Len(collisions') :
                ~(heap[collisions'[k].body_a].static /\ heap[collisions'[k].body_b].static)]_vars

\* C6: resolve_collisions ends without a division error on every list of
\* contacts detect_collisions returns, in grid mode and in naive mode.
C6_NoDivisionError == raised = "none"

\* The one contact of the last detection is between two circles a and b
\* that are not static, of equal mass, restitution 1 and friction 0.
ElasticPair(a, b) ==
    /\ Len(collisions) = 1
    /\ collisions[1].body_a = a /\ collisions[1].body_b = b
    /\ heap[a].kind = "Circle" /\ heap[b].kind = "Circle"
    /\ ~heap[a].static /\ ~heap[b].static
    /\ heap[a].mass = heap[b].mass
    /\ heap[a].restitution = SC /\ heap[b].restitution = SC
    /\ heap[a].friction = 0 /\ heap[b].friction = 0

\* The relative velocity of b to a is parallel to the unit vector normal.
ParallelToNormal(a, b, normal) ==
    LET relative_velocity == __sub__(heap[b].velocity, heap[a].velocity)
    IN  /\ normal.x * normal.x + normal.y * normal.y = SC * SC
        /\ relative_velocity.x * normal.y = relative_velocity.y * normal.x

\* C9: resolve_collisions on a head-on contact of two approaching circles
\* that are not static, of equal mass, restitution 1 and friction 0, leaves
\* each with the velocity the other had.
C9_ElasticExchange ==
    [][\A a, b \in DOMAIN heap :
          (/\ op = "detect" /\ op' = "resolve"
           /\ ElasticPair(a, b)
           /\ ParallelToNormal(a, b, collisions[1].normal)
           /\ dot(__sub__(heap[b].velocity, heap[a].velocity), collisions[1].normal) < 0)
          => /\ heap'[a].velocity = heap[b].velocity
             /\ heap'[b].velocity = heap[a].velocity]_vars

\* Such a contact has been resolved: the two circles now separate head-on,
\* along a normal that is on no axis.
C9_Witness ==
    /\ op = "resolve"
    /\ \E a, b \in DOMAIN heap :
          /\ ElasticPair(a, b)
          /\ ParallelToNormal(a, b, collisions[1].normal)
          /\ collisions[1].normal.x # 0 /\ collisions[1].normal.y # 0
          /\ heap[a].velocity # heap[b].velocity
          /\ dot(__sub__(heap[b].velocity, heap[a].velocity), collisions[1].normal) > 0

\* The contact that a call of resolve_collisions is given: the list holds
\* one, and the call has not raised before resolving it.
Resolving ==
    /\ op \in {"detect", "given"} /\ op' = "resolve"
    /\ Len(collisions) = 1

\* The rounding a position or a velocity can carry after contact c is
\* resolved on heap h: a correction or an impulse is rounded a few times by
\* less than a unit each and then multiplied by an inverse mass.
Slack(h, c) == 4 + 2 * ((InvMass(h[c.body_a]) + InvMass(h[c.body_b])) \div SC)

\* Fixed-point numbers that differ by slack and by the two digits a
\* normalized vector carries (two percent).
Roughly(x, y, slack) == Abs(x - y) <= slack + Abs(y) \div 50

\* The share inv / total of 0.8 * penetration, along the component k of a
\* unit vector.
CorrectionShare(k, penetration, inv, total) ==
    TDiv(k * 8 * penetration * inv, 10 * total * SC)

\* C16: resolving a contact of penetration p > 0 between bodies whose
\* inverse masses (0 for a static body) have a positive sum moves body_a by
\* -normal * 0.8p * invA / (invA + invB) and body_b by
\* +normal * 0.8p * invB / (invA + invB), which is 0.8p along the normal in
\* all; with p <= 0 or a sum of 0 no position changes.
C16_CorrectionSplit ==
    [][Resolving =>
        LET c == collisions[1]
            a == c.body_a
            b == c.body_b
            p == c.penetration
            inv_a == InvMass(heap[a])
            inv_b == InvMass(heap[b])
            moved_a == __sub__(heap'[a].position, heap[a].position)
            moved_b == __sub__(heap'[b].position, heap[b].position)
            slack == Slack(heap, c)
        IN  IF p > 0 /\ inv_a + inv_b > 0
            THEN /\ Roughly(moved_a.x, -CorrectionShare(c.normal.x, p, inv_a, inv_a + inv_b), slack)
                 /\ Roughly(moved_a.y, -CorrectionShare(c.normal.y, p, inv_a, inv_a + inv_b), slack)
                 /\ Roughly(moved_b.x, CorrectionShare(c.normal.x, p, inv_b, inv_a + inv_b), slack)
                 /\ Roughly(moved_b.y, CorrectionShare(c.normal.y, p, inv_b, inv_a + inv_b), slack)
                 /\ Roughly(dot(__sub__(moved_b, moved_a), c.normal),
                            Mul(p, position_correction_factor), slack)
            ELSE /\ heap'[a].position = heap[a].position
                 /\ heap'[b].position = heap[b].position]_vars

\* A contact of positive penetration between two bodies of different finite
\* mass has been resolved, off the axes.
C16_Witness ==
    /\ op = "resolve"
    /\ Len(collisions) = 1
    /\ collisions[1].penetration > 0
    /\ collisions[1].normal.x # 0 /\ collisions[1].normal.y # 0
    /\ InvMass(heap[collisions[1].body_a]) > InvMass(heap[collisions[1].body_b])
    /\ InvMass(heap[collisions[1].body_b]) > 0

\* The velocity of body_b relative to body_a along the normal of contact c,
\* on the heap h.
NormalVelocity(h, c) ==
    dot(__sub__(h[c.body_b].velocity, h[c.body_a].velocity), c.normal)

\* C17: resolving a contact whose bodies separate already (relative velocity
\* of body_b to body_a along the normal > 0) leaves both velocities as they
\* were.
C17_SeparatingUntouched ==
    [][(Resolving /\ NormalVelocity(heap, collisions[1]) > 0)
       => /\ heap'[collisions[1].body_a].velocity = heap[collisions[1].body_a].velocity
          /\ heap'[collisions[1].body_b].velocity = heap[collisions[1].body_b].velocity]_vars

\* A detected contact of two circles that separate and slide along each
\* other, neither static, with friction between them, has been resolved in
\* the first round.
C17_Witness ==
    /\ op = "resolve"
    /\ steps = 1
    /\ Len(collisions) = 1
    /\ collisions[1].collision_type = "circle-circle"
    /\ NormalVelocity(heap, collisions[1]) > 0
    /\ InvMass(heap[collisions[1].body_a]) > 0
    /\ InvMass(heap[collisions[1].body_b]) > 0
    /\ heap[collisions[1].body_a].friction > 0
    /\ heap[collisions[1].body_a].velocity = V(-7, -1)
    /\ heap[collisions[1].body_b].velocity = V(3, 4)

\* C18: resolving a contact whose bodies approach (relative velocity vn of
\* body_b to body_a along the normal <= 0), with invA + invB > 0, leaves
\* the relative velocity along the normal at -e * vn, where e is the lesser
\* of the two restitutions, friction included.
C18_RestitutionLaw ==
    [][(/\ Resolving
        /\ NormalVelocity(heap, collisions[1]) <= 0
        /\ InvMass(heap[collisions[1].body_a]) + InvMass(heap[collisions[1].body_b]) > 0)
       => Roughly(NormalVelocity(heap', collisions[1]),
                  -Mul(Min(heap[collisions[1].body_a].restitution,
                           heap[collisions[1].body_b].restitution),
                       NormalVelocity(heap, collisions[1])),
                  Slack(heap, collisions[1]))]_vars

\* A contact of two approaching circles of different restitution that also
\* slide along each other with friction has been resolved, off the axes.
C18_Witness ==
    /\ op = "resolve"
    /\ Len(collisions) = 1
    /\ heap[collisions[1].body_a].restitution # heap[collisions[1].body_b].restitution
    /\ heap[collisions[1].body_a].friction > 0
    /\ collisions[1].normal.x # 0 /\ collisions[1].normal.y # 0
    /\ NormalVelocity(heap, collisions[1]) > 0
    /\ LET relative_velocity == __sub__(heap[collisions[1].body_b].velocity,
                                        heap[collisions[1].body_a].velocity)
       IN  relative_velocity.x * collisions[1].normal.y
               # relative_velocity.y * collisions[1].normal.x

\* The part of vector v across the unit vector normal.
Tangential(v, normal) == __sub__(v, __mul__(normal, dot(v, normal)))

C28_FrictionOnlySlows ==
    [][(Resolving /\ raised' = "none") =>
        LET c == collisions[1]
            before == Tangential(__sub__(heap[c.body_b].velocity, heap[c.body_a].velocity),
                                 c.normal)
            after == Tangential(__sub__(heap'[c.body_b].velocity, heap'[c.body_a].velocity),
                                c.normal)
        IN  /\ magnitude(after) <= magnitude(before) + Slack(heap, c) + magnitude(before) \div 50
            /\ dot(after, normalized(before)) >= -Slack(heap, c)]_vars

C20_CallbacksPerContact ==
    [][Resolving => calls' = Callbacks(heap, collisions[1])]_vars

\* What two circles overlap by: the sum of the radii less the distance of
\* the centres.
Overlap(h, a, b) ==
    h[a].radius + h[b].radius - distance_to(h[a].position, h[b].position)

\* Two overlapping circles, not both static.
OverlappingCircles(h, a, b) ==
    /\ h[a].kind = "Circle" /\ h[b].kind = "Circle"
    /\ ~(h[a].static /\ h[b].static)
    /\ Overlap(h, a, b) > 0

\* C13: a round of detect_collisions and resolve_collisions on two
\* overlapping circles, not both static, leaves a smaller overlap, and no gap
\* wider than the overlap was.
C13_CorrectionConverges ==
    [][(/\ op = "detect" /\ op' = "resolve"
        /\ OverlappingCircles(heap, bodies[1], bodies[2]))
       => /\ Overlap(heap', bodies[1], bodies[2]) < Overlap(heap, bodies[1], bodies[2])
          /\ Overlap(heap', bodies[1], bodies[2]) >= -Overlap(heap, bodies[1], bodies[2])]_vars

(***************************************************************************)
(* Several contacts in one list: three circles in a row                    *)
(***************************************************************************)
\* A circle of radius 10 that is a body of the engine and has an
\* on_collision callback.
ChainCircle(pos, vel, mass) ==
    OnCollision([Circle(pos, 10 * SC, mass, FALSE) EXCEPT !.velocity = vel, !.engine = TRUE])

\* Three circles in a row along x or along y, the middle one (body 2)
\* overlapping both others by 5; the outer ones at rest or moving inwards at
\* speed 5; the middle one as heavy as the others or lighter.
ChainScenes ==
    { <<ChainCircle(__sub__(V(50, 50), __mul__(axis, 15 * SC)), __mul__(axis, k * SC), SC),
        ChainCircle(V(50, 50), ZeroVector, mass),
        ChainCircle(__add__(V(50, 50), __mul__(axis, 15 * SC)), __mul__(axis, -k * SC), SC)>> :
        axis \in { Vector2D(SC, 0), Vector2D(0, SC) },
        k \in { 0, 5 },
        mass \in { SC, SC \div 4 } }

\* The orders in which the three bodies can have been added.
ChainOrders ==
    { <<1, 2, 3>>, <<1, 3, 2>>, <<2, 1, 3>>, <<2, 3, 1>>, <<3, 1, 2>>, <<3, 2, 1>> }

InitChain ==
    /\ heap \in ChainScenes
    /\ bodies \in ChainOrders
    /\ use_spatial_optimization = FALSE
    /\ spatial_grid = NoGrid
    /\ collisions = <<>>
    /\ raised = "none"
    /\ checked = NoCheck
    /\ op = "init"
    /\ calls = <<>>
    /\ steps = 0
    /\ EngineIdle
    /\ ToolsIdle

\* The driver steps the engine, or runs the detector and the resolver on the
\* engine's bodies.
NextChain == Step \/ DetectCollisions \/ ResolveCollisions

SpecChain == InitChain /\ [][NextChain]_vars

\* The two bodies of each contact of the list cs.
BodyPairs(cs) == [k \in 1..Len(cs) |-> <<cs[k].body_a, cs[k].body_b>>]

\* The body of the last contact of the list cs that is in no earlier one,
\* or 0.
LastOnly(cs) ==
    LET prs == BodyPairs(cs)
        last == prs[Len(prs)]
        Earlier(x) == \E k \in 1..(Len(prs) - 1) : x \in {prs[k][1], prs[k][2]}
    IN  IF ~Earlier(last[2]) THEN last[2]
        ELSE IF ~Earlier(last[1]) THEN last[1]
        ELSE 0

\* The calls of the callbacks for the contacts cs from the k-th on.
RECURSIVE CallsInOrder(_, _)
CallsInOrder(cs, k) ==
    IF k > Len(cs) THEN <<>> ELSE Callbacks(heap, cs[k]) \o CallsInOrder(cs, k + 1)

\* resolve_collisions has resolved a list of two contacts or more.
ResolvingSeveral ==
    /\ op = "detect" /\ op' = "resolve"
    /\ Len(collisions) >= 2

\* A step(dt) has detected two contacts or more.
SteppingSeveral(dt) ==
    /\ step(dt)
    /\ steps' = steps + 1
    /\ op' = op
    /\ Len(collision_pairs') >= 2

\* The sequence s is the sequence t with some elements left out.
RECURSIVE Subsequence(_, _)
Subsequence(s, t) ==
    IF s = <<>> THEN TRUE
    ELSE IF t = <<>> THEN FALSE
    ELSE IF Head(s) = Head(t) THEN Subsequence(Tail(s), Tail(t))
    ELSE Subsequence(s, Tail(t))

\* C21: resolve_collisions, and the resolution phase of step, take the
\* contacts in the order of the list, and each with the normal and the
\* penetration of its detection: the callbacks are called in the order of
\* the list, and a body that only the last contact touches is moved by its
\* share of that contact's detected penetration, although an earlier
\* contact moved the other body.
C21_ListOrderStaleContacts ==
    /\ [][ResolvingSeveral =>
            LET c == collisions[Len(collisions)]
                x == LastOnly(collisions)
                total == InvMass(heap[c.body_a]) + InvMass(heap[c.body_b])
                sign == IF x = c.body_b THEN 1 ELSE -1
                moved == __sub__(heap'[x].position, heap[x].position)
            IN  /\ calls' = CallsInOrder(collisions, 1)
                /\ x # 0 =>
                      /\ Roughly(moved.x,
                                 sign * CorrectionShare(c.normal.x, c.penetration,
                                                        InvMass(heap[x]), total),
                                 Slack(heap, c))
                      /\ Roughly(moved.y,
                                 sign * CorrectionShare(c.normal.y, c.penetration,
                                                        InvMass(heap[x]), total),
                                 Slack(heap, c))]_vars
    /\ [][\A dt \in DtChoices : SteppingSeveral(dt) =>
            LET prs == collision_pairs'
                pr == prs[Len(prs)]
                x == LastOnly(prs)
                sign == IF x = pr.body_b THEN 1 ELSE -1
                moved == __sub__(heap'[x].position, Integrated(dt)[x].position)
                half == __mul__(__mul__(pr.info.normal, pr.info.penetration), SC \div 2)
            IN  /\ Subsequence([k \in 1..Len(calls') |->
                                   <<calls'[k].first, calls'[k].second>>],
                               BodyPairs(prs))
                /\ x # 0 =>
                      /\ Roughly(moved.x, sign * half.x, 4)
                      /\ Roughly(moved.y, sign * half.y, 4)]_vars

\* A list of two contacts has been resolved by resolve_collisions, the
\* second with a body the first had moved, and both called callbacks.
C21_Witness ==
    /\ op = "resolve"
    /\ Len(collisions) = 2
    /\ collisions[2].body_a = collisions[1].body_b
    /\ ~heap[collisions[2].body_a].static
    /\ Len(calls) = 4

(***************************************************************************)
(* The grid from one detection to the next: the three circles in a row,    *)
(* with a detector in grid mode                                            *)
(***************************************************************************)

\* The detector is CollisionDetector(True, 10) after setup_spatial_grid; the
\* outer circles of the row close in on the middle one.
InitRebuild ==
    /\ heap \in { scene \in ChainScenes :
                    scene[1].velocity = V(5, 0) \/ scene[1].velocity = V(0, 5) }
    /\ bodies \in { <<1, 2, 3>>, <<3, 2, 1>> }
    /\ use_spatial_optimization = TRUE
    /\ spatial_grid = SpatialGrid(WorldSize, WorldSize, 10 * SC)
    /\ collisions = <<>>
    /\ raised = "none"
    /\ checked = NoCheck
    /\ op = "setup"
    /\ config = EngineConfig(ZeroVector)
    /\ collision_pairs = <<>>
    /\ paused = FALSE
    /\ calls = <<>>
    /\ steps = 0
    /\ ToolsIdle

\* The driver steps the engine, removes a body from it, or runs the
\* detector and the resolver on the engine's bodies.
NextRebuild == Step \/ RemoveBody \/ DetectCollisions \/ ResolveCollisions

SpecRebuild == InitRebuild /\ [][NextRebuild]_vars

\* How often x occurs in the sequence s.
Count(s, x) == Cardinality({ k \in 1..Len(s) : s[k] = x })

\* The cells between the clamped cell of the least corner of body's bounding
\* box and that of its greatest corner, in grid g.
CellsOf(g, body) ==
    LET box == get_bounding_box(body)
        lo == _get_cell_coords(g, box[1].x, box[1].y)
        hi == _get_cell_coords(g, box[2].x, box[2].y)
    IN  (lo[1]..hi[1]) \X (lo[2]..hi[2])

\* The bodies that grid g lists in cell, as a sequence.
ListedIn(g, cell) ==
    IF CellIndex(g.grid, cell) = 0 THEN <<>> ELSE g.grid[CellIndex(g.grid, cell)].bodies

\* Grid g holds the bodies of the list bs as they lie on heap h, each in
\* every cell of its range and in no other, as often as the list has it.
HoldsExactly(g, h, bs) ==
    /\ \A k \in 1..Len(g.grid) : \A id \in DOMAIN h :
          Count(g.grid[k].bodies, id) =
              IF g.grid[k].cell \in CellsOf(g, h[id]) THEN Count(bs, id) ELSE 0
    /\ \A i \in 1..Len(bs) : \A cell \in CellsOf(g, h[bs[i]]) :
          Count(ListedIn(g, cell), bs[i]) > 0

MaxBodies == 3

\* Circles and segments inside the world, across its cells, and partly or
\* wholly outside it.
GridPool ==
    <<Circle(V(95, 95), 10 * SC, SC, FALSE),
      Circle(V(108, 95), 5 * SC, SC, FALSE),
      Circle(V(-20, 50), 15 * SC, SC, FALSE),
      Circle(V(-8, 60), 10 * SC, SC, TRUE),
      Segment(V(0, 100), V(200, 100), 4 * SC, TRUE),
      Segment(V(210, 0), V(210, 200), 6 * SC, TRUE),
      Circle(V(215, 150), 8 * SC, SC, FALSE),
      Circle(V(100, 230), 12 * SC, SC, FALSE),
      Segment(V(60, 220), V(140, 220), 4 * SC, TRUE)>>

InitGrid ==
    /\ heap = GridPool
    /\ bodies = <<>>
    /\ use_spatial_optimization = TRUE
    /\ \E cell_size \in { CellSize, CellSize \div 2 } :
          spatial_grid = SpatialGrid(WorldSize, WorldSize, cell_size)
    /\ collisions = <<>>
    /\ raised = "none"
    /\ checked = NoCheck
    /\ op = "init"
    /\ calls = <<>>
    /\ steps = 0
    /\ EngineIdle
    /\ ToolsIdle

\* spatial_grid.insert(body)
GridInsert ==
    \E id \in DOMAIN heap :
        /\ Len(bodies) < MaxBodies
        /\ spatial_grid' = insert(spatial_grid, heap, id)
        /\ bodies' = Append(bodies, id)
        /\ op' = "insert"
        /\ UNCHANGED <<heap, config, collision_pairs, paused, calls, steps,
                       use_spatial_optimization, collisions, raised, checked, toolVars>>

\* spatial_grid.clear()
GridClear ==
    /\ bodies # <<>>
    /\ spatial_grid' = [spatial_grid EXCEPT !.grid = <<>>]
    /\ bodies' = <<>>
    /\ op' = "clear"
    /\ UNCHANGED <<heap, config, collision_pairs, paused, calls, steps,
                   use_spatial_optimization, collisions, raised, checked, toolVars>>

NextGrid == GridInsert \/ GridClear

SpecGrid == InitGrid /\ [][NextGrid]_vars

\* C2: every pair of inserted bodies for which _check_collision returns a
\* contact is among the pairs get_potential_collisions yields.
C2_GridNoFalseNegatives ==
    LET potential == get_potential_collisions(spatial_grid)
    IN  \A i, j \in 1..Len(bodies) :
            (i < j /\ _check_collision(heap, bodies[i], bodies[j]).hit)
            => \E k \in 1..Len(potential) :
                  PairKey(potential[k][1], potential[k][2]) = PairKey(bodies[i], bodies[j])

\* Body b lies wholly outside the world rectangle.
OutsideWorld(b) ==
    LET box == get_bounding_box(b)
    IN  \/ box[2].x < 0 \/ box[1].x > spatial_grid.world_width
        \/ box[2].y < 0 \/ box[1].y > spatial_grid.world_height

\* Two inserted bodies are in contact, one of them wholly outside the
\* world, and two others are in contact across a cell border.
C2_Witness ==
    /\ op = "insert"
    /\ \E i, j \in 1..Len(bodies) :
          /\ _check_collision(heap, bodies[i], bodies[j]).hit
          /\ OutsideWorld(heap[bodies[i]])
    /\ \E i, j \in 1..Len(bodies) :
          /\ _check_collision(heap, bodies[i], bodies[j]).hit
          /\ _get_cells_for_body(spatial_grid, heap[bodies[i]])
                 # _get_cells_for_body(spatial_grid, heap[bodies[j]])

\* C14: get_potential_collisions yields no pair of two different bodies
\* twice, in the same order or in the other.
C14_PairsYieldedOnce ==
    LET potential == get_potential_collisions(spatial_grid)
    IN  \A k, l \in 1..Len(potential) :
            (k < l /\ potential[k][1] # potential[k][2])
            => {potential[k][1], potential[k][2]} # {potential[l][1], potential[l][2]}

\* The cells of the grid that hold both a and b.
SharedCells(a, b) ==
    { c \in 1..Len(spatial_grid.grid) :
        /\ InList(spatial_grid.grid[c].bodies, a)
        /\ InList(spatial_grid.grid[c].bodies, b) }

\* Two different bodies share four cells and are yielded, and a body
\* inserted twice stands on both sides of another in a cell.
C14_Witness ==
    /\ op = "insert"
    /\ \E a, b \in DOMAIN heap :
          /\ a # b
          /\ Cardinality(SharedCells(a, b)) >= 4
          /\ \E k \in 1..Len(get_potential_collisions(spatial_grid)) :
                get_potential_collisions(spatial_grid)[k] = <<a, b>>
    /\ \E a, b \in DOMAIN heap :
          /\ a # b
          /\ \E c \in 1..Len(spatial_grid.grid) :
                LET cell == spatial_grid.grid[c].bodies
                IN  \E i, j, k \in 1..Len(cell) :
                        i < j /\ j < k /\ cell[i] = a /\ cell[j] = b /\ cell[k] = a

(***************************************************************************)
(* The quadtree on a list of bodies                                        *)
(***************************************************************************)
MaxInserts == 3

QMaxObjects == 1

QMaxLevels == 2

\* Circles in three quadrants of the world, a circle and a segment across
\* the vertical midline.
QuadPool ==
    <<Circle(V(30, 30), 5 * SC, SC, FALSE),
      Circle(V(150, 150), 5 * SC, SC, FALSE),
      Circle(V(95, 30), 70 * SC, SC, FALSE),
      Circle(V(40, 40), 5 * SC, SC, FALSE),
      Segment(V(100, 20), V(100, 180), 4 * SC, TRUE),
      Circle(V(170, 30), 5 * SC, SC, FALSE)>>

EmptyTree == (<<>> :> QuadTree(<<0, 0, WorldSize, WorldSize>>, QMaxObjects, QMaxLevels, 0))

InitQuad ==
    /\ heap = QuadPool
    /\ bodies = <<>>
    /\ quadtree = EmptyTree
    /\ return_objects = <<>>
    /\ query = 0
    /\ ccd = NoCall
    /\ ring_collision = [result |-> "None"]
    /\ calls = <<>>
    /\ steps = 0
    /\ EngineIdle
    /\ DetectorIdle

\* quadtree.insert(body); the list of the last query is dropped.
QInsert ==
    \E id \in DOMAIN heap :
        /\ Len(bodies) < MaxInserts
        /\ ~InList(bodies, id)
        /\ quadtree' = quadtree_insert(quadtree, <<>>, heap, id)
        /\ bodies' = Append(bodies, id)
        /\ return_objects' = <<>>
        /\ query' = 0
        /\ op' = "qinsert"
        /\ UNCHANGED <<heap, config, collision_pairs, paused, calls, steps,
                       use_spatial_optimization, spatial_grid, collisions, raised, checked,
                       ccd, ring_collision>>

\* quadtree.retrieve([], body)
QRetrieve ==
    \E id \in DOMAIN heap :
        /\ bodies # <<>>
        /\ return_objects' = retrieve(quadtree, <<>>, heap, <<>>, id)
        /\ query' = id
        /\ op' = "retrieve"
        /\ UNCHANGED <<engineVars, use_spatial_optimization, spatial_grid, collisions,
                       raised, checked, quadtree, ccd, ring_collision>>

\* quadtree.clear(); the list of the last query is dropped.
QClear ==
    /\ bodies # <<>>
    /\ quadtree' = EmptyTree
    /\ bodies' = <<>>
    /\ return_objects' = <<>>
    /\ query' = 0
    /\ op' = "qclear"
    /\ UNCHANGED <<heap, config, collision_pairs, paused, calls, steps,
                   use_spatial_optimization, spatial_grid, collisions, raised, checked,
                   ccd, ring_collision>>

NextQuad == QInsert \/ QRetrieve \/ QClear

SpecQuad == InitQuad /\ [][NextQuad]_vars

\* The places of the tree where body id is stored: a node and an index of
\* its list of objects.
StoredAt(t, id) ==
    UNION { { <<p, k>> : k \in { j \in 1..Len(t[p].objects) : t[p].objects[j] = id } } :
            p \in DOMAIN t }

\* The bounding box of body lies strictly on the side of each midline of
\* node on which the node's child index lies (0 NE, 1 NW, 2 SW, 3 SE).
StrictlyInQuadrant(node, index, body) ==
    LET vertical_midpoint == node.bounds[1] + TDiv(node.bounds[3], 2)
        horizontal_midpoint == node.bounds[2] + TDiv(node.bounds[4], 2)
        min_pos == get_bounding_box(body)[1]
        max_pos == get_bounding_box(body)[2]
    IN  /\ IF index \in {1, 2} THEN max_pos.x < vertical_midpoint
                                ELSE min_pos.x > vertical_midpoint
        /\ IF index \in {0, 1} THEN max_pos.y < horizontal_midpoint
                                ELSE min_pos.y > horizontal_midpoint

\* C25: after any sequence of inserts of distinct bodies, each body inserted
\* is stored at exactly one place of the tree and no other body is stored;
\* a body stored below a child of a node has its bounding box strictly on
\* that child's side of both midlines of the node.
C25_StoredOnceInQuadrant ==
    /\ \A id \in DOMAIN heap :
          Cardinality(StoredAt(quadtree, id)) = IF InList(bodies, id) THEN 1 ELSE 0
    /\ \A p \in DOMAIN quadtree : \A k \in 1..Len(quadtree[p].objects) :
          \A n \in 0..(Len(p) - 1) :
              /\ SubSeq(p, 1, n) \in DOMAIN quadtree
              /\ quadtree[SubSeq(p, 1, n)].nodes
              /\ StrictlyInQuadrant(quadtree[SubSeq(p, 1, n)], p[n + 1],
                                    heap[quadtree[p].objects[k]])

\* Three inserts and two splits: a body across a midline is stored at the
\* root, the two others in a grandchild.
C25_Witness ==
    /\ op = "qinsert"
    /\ Len(bodies) = 3
    /\ Len(quadtree[<<>>].objects) = 1
    /\ \E q \in DOMAIN quadtree : Len(q) = 2 /\ Len(quadtree[q].objects) = 2

\* Two bounding boxes overlap.
BoxesOverlap(box_a, box_b) ==
    /\ box_a[1].x <= box_b[2].x /\ box_b[1].x <= box_a[2].x
    /\ box_a[1].y <= box_b[2].y /\ box_b[1].y <= box_a[2].y

\* C3: retrieve returns every inserted body whose bounding box overlaps the
\* bounding box of the query body.
C3_RetrieveSuperset ==
    op = "retrieve" =>
        \A k \in 1..Len(bodies) :
            BoxesOverlap(get_bounding_box(heap[bodies[k]]), get_bounding_box(heap[query]))
            => InList(return_objects, bodies[k])

(***************************************************************************)
(* The continuous detector on two moving bodies                            *)
(***************************************************************************)
\* The time steps: 1, 2, 1/2 and 1/4.
CCDSteps == { [num |-> 1, den |-> 1], [num |-> 2, den |-> 1],
              [num |-> 1, den |-> 2], [num |-> 1, den |-> 4] }

Axes == { V(1, 0), V(0, 1) }

\* Two circles on a line parallel to an axis, moving along it, and a segment.
CCDScenes ==
    { <<MovingCircle(V(20, 20), ra * SC, __mul__(axis, va * SC)),
        MovingCircle(__add__(V(20, 20), __mul__(axis, gap * SC)), rb * SC,
                     __mul__(axis, vb * SC)),
        Segment(V(0, 60), V(100, 60), 4 * SC, TRUE)>> :
        axis \in Axes, ra \in {1, 2}, rb \in {1, 2}, gap \in {2, 3, 5, 8, 10},
        va \in {0, 4, 12, 40}, vb \in {-4, 0, 4} }

InitCCD ==
    /\ heap \in CCDScenes
    /\ bodies = <<1, 2, 3>>
    /\ quadtree = (<<>> :> QuadTree(<<0, 0, 0, 0>>, 0, 0, 0))
    /\ return_objects = <<>>
    /\ query = 0
    /\ ccd = NoCall
    /\ ring_collision = [result |-> "None"]
    /\ calls = <<>>
    /\ steps = 0
    /\ EngineIdle
    /\ DetectorIdle

\* ccd.detect_continuous_collision(body_a, body_b, dt)
DetectContinuousCollision ==
    \E a \in DOMAIN heap, b \in DOMAIN heap, dt \in CCDSteps :
        /\ a # b
        /\ ccd' = [a |-> a, b |-> b, dt |-> dt,
                   result |-> detect_continuous_collision(heap, a, b, dt)]
        /\ op' = "ccd"
        /\ UNCHANGED <<engineVars, use_spatial_optimization, spatial_grid, collisions,
                       raised, checked, quadtree, return_objects, query, ring_collision>>

NextCCD == DetectContinuousCollision

SpecCCD == InitCCD /\ [][NextCCD]_vars

\* The last call was on two circles.
CircleCall ==
    /\ op = "ccd"
    /\ heap[ccd.a].kind = "Circle" /\ heap[ccd.b].kind = "Circle"

\* Ticks times the distance of the centres of the last call after t ticks,
\* and Ticks times the sum of the radii.
CentreDistance(t) == AxisLength(RelativeAt(heap, ccd.a, ccd.b, ccd.dt, t))

RadiusSum == Whole(heap[ccd.a].radius + heap[ccd.b].radius) * Ticks

\* On their line the centres come closer than the sum of the radii at some
\* instant of (0, dt]: they do at dt, or one centre passes the other.
ComesWithinReach ==
    LET first == RelativeAt(heap, ccd.a, ccd.b, ccd.dt, 0)
        last == RelativeAt(heap, ccd.a, ccd.b, ccd.dt, Ticks)
    IN  \/ CentreDistance(Ticks) < RadiusSum
        \/ (first.x > 0 /\ last.x <= 0)
        \/ (first.x < 0 /\ last.x >= 0)
        \/ (first.y > 0 /\ last.y <= 0)
        \/ (first.y < 0 /\ last.y >= 0)

\* C7: for two circles that do not overlap at t = 0 and whose motion over
\* the step brings their centres closer than rA + rB at some instant of
\* (0, dt], detect_continuous_collision returns a contact.
C7_NoTunneling ==
    (CircleCall /\ CentreDistance(0) >= RadiusSum /\ ComesWithinReach)
    => ccd.result.hit

\* C8: a contact of detect_continuous_collision means the circles did not
\* overlap at t = 0, overlap at t = dt, the penetration is 0 and the time of
\* impact in the metadata is strictly between 0 and dt.
C8_ContactAtImpact ==
    (op = "ccd" /\ ccd.result.hit) =>
        /\ CircleCall
        /\ CentreDistance(0) >= RadiusSum
        /\ CentreDistance(Ticks) < RadiusSum
        /\ ccd.result.penetration = 0
        /\ ccd.result.metadata.collision_time > 0
        /\ ccd.result.metadata.collision_time < Ticks

\* A contact whose time of impact the bisection had to search for: it is not
\* the first midpoint, and the circles touch there to within a tick's travel.
C8_Witness ==
    /\ op = "ccd"
    /\ ccd.result.hit
    /\ ccd.result.metadata.collision_time # Ticks \div 2
    /\ ccd.result.metadata.collision_time % 2 = 1
    /\ CentreDistance(0) > RadiusSum

(***************************************************************************)
(* The bisection of the continuous detector, iteration by iteration        *)
(*                                                                         *)
(* ccd holds the locals of _binary_search_collision_time: the iterations   *)
(* done, t_min and t_max in ticks, and the time returned (-1 until the     *)
(* search returns).                                                        *)
(***************************************************************************)
Searching == op \in {"search", "iterate"} /\ ccd.t_collision = -1

\* _circle_circle_ccd up to the call of _binary_search_collision_time, and
\* the first lines of the search.
BeginSearch ==
    \E a \in DOMAIN heap, b \in DOMAIN heap, dt \in CCDSteps :
        LET radius_sum == Whole(heap[a].radius + heap[b].radius)
        IN  /\ a # b
            /\ ~Searching
            /\ heap[a].kind = "Circle" /\ heap[b].kind = "Circle"
            /\ ~AlreadyColliding(AxisLength(RelativeAt(heap, a, b, dt, 0)), radius_sum * Ticks)
            /\ AxisLength(RelativeAt(heap, a, b, dt, Ticks)) < radius_sum * Ticks
            /\ ccd' = [a |-> a, b |-> b, dt |-> dt, radius_sum |-> radius_sum,
                       i |-> 0, t_min |-> 0, t_max |-> Ticks, t_collision |-> -1]
            /\ op' = "search"
            /\ UNCHANGED <<engineVars, use_spatial_optimization, spatial_grid, collisions,
                           raised, checked, quadtree, return_objects, query, ring_collision>>

\* One iteration of the loop, with the return that ends it or follows it.
Iterate ==
    LET t_mid == (ccd.t_min + ccd.t_max) \div 2
        distance == AxisLength(RelativeAt(heap, ccd.a, ccd.b, ccd.dt, t_mid))
        bracket == Bracket(distance, ccd.radius_sum * Ticks, ccd.t_min, t_mid, ccd.t_max)
    IN  /\ Searching
        /\ ccd.i < max_iterations
        /\ ccd' = IF BelowTolerance(Abs(distance - ccd.radius_sum * Ticks), Ticks)
                  THEN [ccd EXCEPT !.i = @ + 1, !.t_collision = t_mid]
                  ELSE [ccd EXCEPT !.i = @ + 1, !.t_min = bracket[1], !.t_max = bracket[2],
                                   !.t_collision =
                                       IF \/ BelowTolerance((bracket[2] - bracket[1]) * ccd.dt.num,
                                                            Ticks * ccd.dt.den)
                                          \/ ccd.i + 1 = max_iterations
                                       THEN (bracket[1] + bracket[2]) \div 2
                                       ELSE -1]
        /\ op' = "iterate"
        /\ UNCHANGED <<engineVars, use_spatial_optimization, spatial_grid, collisions,
                       raised, checked, quadtree, return_objects, query, ring_collision>>

NextBisect == BeginSearch \/ Iterate

SpecBisect == InitCCD /\ [][NextBisect]_vars

\* C30: in a search called with the centres at least rA + rB apart at 0 and
\* closer than that at dt, after every iteration the centres are at least
\* rA + rB apart at t_min and closer than that at t_max, t_min <= t_max, an
\* iteration that does not return halves t_max - t_min, and the search has
\* returned after at most max_iterations iterations.
C30_BracketKept ==
    [][(Searching /\ ccd'.i = ccd.i + 1)
       => /\ AxisLength(RelativeAt(heap, ccd.a, ccd.b, ccd.dt, ccd'.t_min))
                 >= ccd.radius_sum * Ticks
          /\ AxisLength(RelativeAt(heap, ccd.a, ccd.b, ccd.dt, ccd'.t_max))
                 < ccd.radius_sum * Ticks
          /\ ccd'.t_min <= ccd'.t_max
          /\ ccd'.t_collision = -1 => 2 * (ccd'.t_max - ccd'.t_min) = ccd.t_max - ccd.t_min
          /\ ccd'.i <= max_iterations
          /\ ccd'.i = max_iterations => ccd'.t_collision # -1
          /\ ccd'.t_collision # -1
             => ccd'.t_collision = _binary_search_collision_time(heap, ccd.a, ccd.b, ccd.dt,
                                                                ccd.radius_sum)]_vars

\* A search has returned after all of its iterations, with t_min moved up
\* and t_max moved down from the ends of the step.
C30_Witness ==
    /\ op = "iterate"
    /\ ccd.i = max_iterations
    /\ ccd.t_collision # -1
    /\ ccd.t_min > 0 /\ ccd.t_max < Ticks
    /\ ccd.t_max - ccd.t_min = Ticks \div 2 ^ max_iterations

(***************************************************************************)
(* A rotating ring and a circle held in place                              *)
(***************************************************************************)
MaxTurns == 3

Spinning(ring, rotation_speed) == [ring EXCEPT !.rotation_speed = rotation_speed]

\* The centre of the circle: on the inner or the outer boundary of the
\* ring, on an axis, or just inside it on a diagonal.
HeldAt == { V(70, 50), V(50, 70), V(30, 50), V(50, 30),
            V(64, 64), V(36, 64), V(36, 36), V(64, 36),
            V(80, 50), V(50, 80), V(20, 50), V(50, 20),
            V(71, 71), V(29, 71), V(29, 29), V(71, 29) }

RingScenes ==
    { <<Spinning(Ring(V(50, 50), 20 * SC, 30 * SC, gap_angle * SC, gap_start * SC, TRUE),
                 rotation_speed * SC),
        Circle(c, 3 * SC, SC, FALSE)>> :
        gap_angle \in {0, 30, 90, 350, 360}, gap_start \in {-30, 0, 45, 300},
        rotation_speed \in {-45, 45, 100}, c \in HeldAt }

InitRing ==
    /\ heap \in RingScenes
    /\ bodies = <<1, 2>>
    /\ quadtree = (<<>> :> QuadTree(<<0, 0, 0, 0>>, 0, 0, 0))
    /\ return_objects = <<>>
    /\ query = 0
    /\ ccd = NoCall
    /\ ring_collision = [result |-> "None"]
    /\ calls = <<>>
    /\ steps = 0
    /\ EngineIdle
    /\ DetectorIdle

\* ring.update_rotation(dt)
UpdateRotation ==
    \E dt \in DtChoices :
        /\ steps < MaxTurns
        /\ heap' = [heap EXCEPT ![1] = update_rotation(@, dt)]
        /\ steps' = steps + 1
        /\ op' = "rotate"
        /\ UNCHANGED <<bodies, config, collision_pairs, paused, calls,
                       use_spatial_optimization, spatial_grid, collisions, raised, checked,
                       toolVars>>

\* ring.collision_with_circle(circle.position, circle.radius)
CollisionWithCircle ==
    /\ op # "ring"
    /\ ring_collision' = collision_with_circle(heap[1], heap[2].position, heap[2].radius)
    /\ op' = "ring"
    /\ UNCHANGED <<engineVars, use_spatial_optimization, spatial_grid, collisions,
                   raised, checked, quadtree, return_objects, query, ccd>>

NextRing == UpdateRotation \/ CollisionWithCircle

SpecRing == InitRing /\ [][NextRing]_vars

\* The circle straddles the inner or the outer boundary of the ring.
Straddles(ring, circle) ==
    LET distance == distance_to(ring.position, circle.position)
    IN  \/ (/\ distance - circle.radius < ring.inner_radius
            /\ ring.inner_radius < distance + circle.radius)
        \/ (/\ distance - circle.radius < ring.outer_radius
            /\ ring.outer_radius < distance + circle.radius)

\* The angle of the circle's centre, counted from the start of the gap as
\* the rotation has moved it, is within the gap.
InRotatedGap(ring, circle, rotation) ==
    LET relative_pos == __sub__(circle.position, ring.position)
        angle == Atan2Deg(relative_pos.y, relative_pos.x)
    IN  (angle - ring.gap_start - rotation) % FullTurn <= ring.gap_angle

C23_GapMembership ==
    point_in_gap(heap[1], heap[2].position)
        <=> (heap[1].gap_angle > 0 /\ InRotatedGap(heap[1], heap[2], heap[1].rotation))

=============================================================================
